---- MODULE Spec2Model ----
(***************************************************************************)
(* Model of the Optimization Engine of FPL-automator                       *)
(* (src/src/optimizer/transfer_optimizer.py, data_utils.py).               *)
(*                                                                         *)
(* The database snapshot (the players table and the manager picks of the   *)
(* latest gameweek) is the state the engine reads; each call of            *)
(* optimize_transfers / optimize_wildcard is one action.  The MILP that    *)
(* the code hands to PuLP is modelled by its binary assignments: an        *)
(* assignment is a record [sel, tin, tout] of the sets of ids whose        *)
(* select_ / transfer_in_ / transfer_out_ variable is 1.  prob.solve()     *)
(* returns status Optimal with any objective-maximal feasible assignment,  *)
(* or status Infeasible with unspecified variable values.                  *)
(* Prices, points and budgets are integers (tenths).                       *)
(*                                                                         *)
(* The advisors of src/src/optimizer/advisors.py read the squad list, the  *)
(* pool list, the per-gameweek statistics, the fixtures and the chips      *)
(* already used; each call of suggest_captain, analyze_chip_usage,         *)
(* get_transfer_recommendations and of the three transfer classifications  *)
(* is one action that leaves its result in advice.  A call that raises     *)
(* leaves a result of status "raised".                                     *)
(* Scores are exact: bonuses in hundredths, trends and totals as           *)
(* fractions, round() at an exact half either way.                         *)
(***************************************************************************)
EXTENDS Integers, FiniteSets, Sequences, TLC

VARIABLES players, picks, pc, result, prev_result, wildcard_result,
          team, gameweek, stats, fixtures, chips_used, advice, available

vars == <<players, picks, pc, result, prev_result, wildcard_result,
         team, gameweek, stats, fixtures, chips_used, advice, available>>

advisorVars == <<team, gameweek, stats, fixtures, chips_used, advice, available>>

(***************************************************************************)
(* Bounds of the model.                                                    *)
(***************************************************************************)
MaxFree == 2        \* free_transfers ranges over 0..MaxFree
MaxAhead == 2       \* gameweeks_ahead ranges over 1..MaxAhead
MaxStray == 1       \* at most this many variables read back as 1 after a failed solve

(***************************************************************************)
(* Program constants.                                                      *)
(***************************************************************************)
SquadSize == 15
MaxPerClub == 3
DefaultTransferCost == 4
DefaultFreeTransfers == 1
EnhancedBudget == 100
EnhancedGameweeksAhead == 3
LpStatusOptimal == 1
LpStatusInfeasible == -1

positions == ("GK" :> 2) @@ ("DEF" :> 5) @@ ("MID" :> 5) @@ ("FWD" :> 3)

position_map == [i \in 1..4 |-> CASE i = 1 -> "GK" [] i = 2 -> "DEF"
                                  [] i = 3 -> "MID" [] OTHER -> "FWD"]

(***************************************************************************)
(* The snapshots the model explores.  Players 1..15 are a squad of 2 GK,   *)
(* 5 DEF, 5 MID, 3 FWD spread three per club over clubs 1..5; players 16   *)
(* and 17 are further rows of the players table.                           *)
(***************************************************************************)
BaseIds == 1..SquadSize
ExtraIds == {SquadSize + 1, SquadSize + 2}
AllIds == BaseIds \cup ExtraIds

ExtraPositionIds == {3, 4}
ExtraClubs == {1, 6}
ExtraPrices == {5, 7}
ExtraPoints == {4, 8}
Budgets == {0, 2, 76}
WildcardBudgets == {74, 76, 100}

BasePositionId(i) == IF i <= 2 THEN 1 ELSE IF i <= 7 THEN 2 ELSE IF i <= 12 THEN 3 ELSE 4

BaseForm(i) == IF i <= 2 THEN 1 + i ELSE IF i <= 7 THEN i - 1
               ELSE IF i <= 12 THEN i - 6 ELSE i - 11

PlayerTable(pid, club, cost, form, st15, st17) ==
    [i \in AllIds |->
        IF i \in BaseIds
        THEN [position_id |-> BasePositionId(i), team_id |-> ((i - 1) % 5) + 1,
              now_cost |-> 5, form |-> BaseForm(i),
              status |-> IF i = SquadSize THEN st15 ELSE "a"]
        ELSE IF i = SquadSize + 1
        THEN [position_id |-> pid, team_id |-> club, now_cost |-> cost,
              form |-> form, status |-> "a"]
        ELSE [position_id |-> 4, team_id |-> 6, now_cost |-> 5,
              form |-> 5, status |-> st17]]

(***************************************************************************)
(* data_utils.py: the dicts handed to the optimizer.                       *)
(***************************************************************************)
PlayerDict(i) ==
    [id |-> i,
     position |-> position_map[players[i].position_id],
     price |-> players[i].now_cost,
     expected_points |-> players[i].form,
     team_id |-> players[i].team_id]

get_available_players == {i \in DOMAIN players : players[i].status = "a"}

get_current_team == {i \in DOMAIN players : i \in picks}

price == [i \in DOMAIN players |-> PlayerDict(i).price]
expected_points == [i \in DOMAIN players |-> PlayerDict(i).expected_points]

get_selling_price(i) == price[i]

(***************************************************************************)
(* Helpers: lpSum / sum over a set of ids, subsets of a given size.        *)
(***************************************************************************)
RECURSIVE lpSum(_, _)
lpSum(f, S) ==
    IF S = {} THEN 0
    ELSE LET x == CHOOSE y \in S : TRUE IN f[x] + lpSum(f, S \ {x})

RECURSIVE KSubsets(_, _)
KSubsets(S, k) ==
    IF k = 0 THEN {{}}
    ELSE IF Cardinality(S) < k THEN {}
    ELSE LET x == CHOOSE y \in S : TRUE
         IN KSubsets(S \ {x}, k) \cup {T \cup {x} : T \in KSubsets(S \ {x}, k - 1)}

Max0(n) == IF n > 0 THEN n ELSE 0

(***************************************************************************)
(* TransferOptimizer.optimize_transfers: the MILP.                         *)
(* ct = current_team, ap = available_players (sets of ids);                *)
(* c = [budget, free_transfers, transfer_cost, gameweeks_ahead].           *)
(***************************************************************************)
total_transfers(a) == Cardinality(a.tin)

transfer_cost_penalty(a, c) == (total_transfers(a) - c.free_transfers) * c.transfer_cost

TotalValue(a, c) ==
    lpSum([i \in DOMAIN players |-> expected_points[i] * c.gameweeks_ahead], a.sel)
        - transfer_cost_penalty(a, c)

\* lines 57-64: the link constraints are stated for the players of the pool only
LinkOK(a, ct, ap) ==
    \A p \in ap :
        IF p \in ct
        THEN /\ (IF p \in a.sel THEN 1 ELSE 0) + (IF p \in a.tout THEN 1 ELSE 0) = 1
             /\ p \notin a.tin
        ELSE (p \in a.sel) <=> (p \in a.tin)

EqualTransfersOK(a) == Cardinality(a.tin) = Cardinality(a.tout)

money_from_sales(a) == lpSum([i \in DOMAIN players |-> get_selling_price(i)], a.tout)

money_for_purchases(a) == lpSum(price, a.tin)

BudgetOK(a, c) ==
    money_for_purchases(a) - money_from_sales(a) + transfer_cost_penalty(a, c) <= c.budget

SquadSizeOK(a) == Cardinality(a.sel) = SquadSize

PositionOK(a) ==
    \A pos \in DOMAIN positions :
        Cardinality({p \in a.sel : PlayerDict(p).position = pos}) = positions[pos]

\* variant: one player too many per club
TeamLimitOK_OneMore(a, ap) ==
    \A t \in {PlayerDict(p).team_id : p \in ap} :
        Cardinality({p \in a.sel : PlayerDict(p).team_id = t}) <= MaxPerClub + 1

TeamLimitOK(a, ap) ==
    \A t \in {PlayerDict(p).team_id : p \in ap} :
        Cardinality({p \in a.sel : PlayerDict(p).team_id = t}) <= MaxPerClub

TransferConstraints(a, ct, ap, c) ==
    /\ LinkOK(a, ct, ap)
    /\ EqualTransfersOK(a)
    /\ BudgetOK(a, c)
    /\ SquadSizeOK(a)
    /\ PositionOK(a)
    /\ TeamLimitOK(a, ap)

(***************************************************************************)
(* The binary assignments the solver ranges over.  They are enumerated     *)
(* through the equalities that determine them: the squad-size equality     *)
(* fixes |sel| (sel is the pool minus |pool| - 15 players) and the link    *)
(* constraints fix tin and the pool part of tout from sel; transfer_out    *)
(* variables of current players outside the pool occur in no link          *)
(* constraint and stay free.  Every other assignment violates a            *)
(* constraint of TransferConstraints.                                      *)
(***************************************************************************)
Selections(ap) ==
    IF Cardinality(ap) < SquadSize THEN {}
    ELSE {ap \ D : D \in KSubsets(ap, Cardinality(ap) - SquadSize)}

TransferAssignments(ct, ap) ==
    {[sel |-> S, tin |-> S \ ct, tout |-> ((ct \cap ap) \ S) \cup O] :
        S \in Selections(ap), O \in SUBSET (ct \ ap)}

TransferFeasible(ct, ap, c) ==
    {a \in TransferAssignments(ct, ap) : TransferConstraints(a, ct, ap, c)}

(***************************************************************************)
(* prob.solve(): status and variable values.                               *)
(***************************************************************************)
UnspecifiedOnes(V) == UNION {KSubsets(V, k) : k \in 0..MaxStray}

SolveStatus(F) == IF F = {} THEN LpStatusInfeasible ELSE LpStatusOptimal

UnspecifiedAssignments(ct, ap) ==
    {[sel |-> s, tin |-> t, tout |-> o] :
        s \in UnspecifiedOnes(ap), t \in UnspecifiedOnes(ap), o \in UnspecifiedOnes(ct)}

\* variant: the solver stops at any feasible assignment
SolveTransfers_AnyFeasible(F, ct, ap, c) ==
    IF F # {} THEN F ELSE UnspecifiedAssignments(ct, ap)

SolveTransfers(F, ct, ap, c) ==
    IF F # {}
    THEN LET val == [a \in F |-> TotalValue(a, c)]
             best == CHOOSE v \in {val[a] : a \in F} : \A b \in F : val[b] <= v
         IN {a \in F : val[a] = best}
    ELSE UnspecifiedAssignments(ct, ap)

\* variant: the status of the solve is not looked at
FailedToSolve_NoCheck(status) == FALSE

FailedToSolve(status) == status # LpStatusOptimal

Raised(c) ==
    [status |-> "raised", call |-> c, selected_team |-> {}, transfers_in |-> {},
     transfers_out |-> {}, transfer_cost |-> 0, total_expected_points |-> 0,
     remaining_budget |-> 0]

ExtractPlan(a, ct, ap, c) ==
    LET selected_team == {p \in ap : p \in a.sel}
        transfers_in == {p \in ap : p \in a.tin}
        transfers_out == {p \in ct : p \in a.tout}
        total_transfer_cost ==
            Max0(Cardinality(transfers_in) - c.free_transfers) * c.transfer_cost
    IN [status |-> "ok", call |-> c,
        selected_team |-> selected_team,
        transfers_in |-> transfers_in,
        transfers_out |-> transfers_out,
        transfer_cost |-> total_transfer_cost,
        total_expected_points |-> lpSum(expected_points, selected_team),
        remaining_budget |-> c.budget - total_transfer_cost]

\* the set of outcomes of one call
optimize_transfers(ct, ap, c) ==
    LET F == TransferFeasible(ct, ap, c)
    IN IF FailedToSolve(SolveStatus(F))
       THEN {Raised(c)}
       ELSE {ExtractPlan(a, ct, ap, c) : a \in SolveTransfers(F, ct, ap, c)}

(***************************************************************************)
(* TransferOptimizer.optimize_wildcard.                                    *)
(***************************************************************************)
WildcardValue(S) == lpSum(expected_points, S)

\* variant: the price constraint is left out
WildcardConstraints_NoBudget(S, ap, budget) ==
    /\ Cardinality(S) = SquadSize
    /\ \A pos \in DOMAIN positions :
          Cardinality({p \in S : PlayerDict(p).position = pos}) = positions[pos]
    /\ \A t \in {PlayerDict(p).team_id : p \in ap} :
          Cardinality({p \in S : PlayerDict(p).team_id = t}) <= MaxPerClub

WildcardConstraints(S, ap, budget) ==
    /\ lpSum(price, S) <= budget
    /\ Cardinality(S) = SquadSize
    /\ \A pos \in DOMAIN positions :
          Cardinality({p \in S : PlayerDict(p).position = pos}) = positions[pos]
    /\ \A t \in {PlayerDict(p).team_id : p \in ap} :
          Cardinality({p \in S : PlayerDict(p).team_id = t}) <= MaxPerClub

WildcardFeasible(ap, budget) ==
    {S \in Selections(ap) : WildcardConstraints(S, ap, budget)}

SolveWildcard(F, ap) ==
    IF F # {}
    THEN LET val == [S \in F |-> WildcardValue(S)]
             best == CHOOSE v \in {val[S] : S \in F} : \A T \in F : val[T] <= v
         IN {S \in F : val[S] = best}
    ELSE UnspecifiedOnes(ap)

\* line 167: the values are read back whatever the status
optimize_wildcard(ap, budget) ==
    {[status |-> "returned", budget |-> budget, team |-> {p \in ap : p \in S}] :
        S \in SolveWildcard(WildcardFeasible(ap, budget), ap)}

(***************************************************************************)
(* advisors.py: the Scoring Engine (CaptainAdvisor).  The engine reads the *)
(* squad list handed to it (team), the fixtures table, the per-gameweek    *)
(* statistics table (stats) and the players table.  Bonus factors are      *)
(* integers in hundredths; the form trend and the score before rounding    *)
(* are exact fractions [n, d], so the floating-point error of the code (of *)
(* the order of 1e-16) is not modelled, except where it decides a result:  *)
(* round(x, 2) of a value half-way between two hundredths may go either    *)
(* way.                                                                    *)
(***************************************************************************)
RECURSIVE GCD(_, _)
GCD(a, b) == IF b = 0 THEN a ELSE GCD(b, a % b)

Abs(n) == IF n < 0 THEN -n ELSE n

Frac(n, d) == LET g == GCD(Abs(n), d) IN [n |-> n \div g, d |-> d \div g]

FracAdd(a, b) == Frac(a.n * b.d + b.n * a.d, a.d * b.d)

FracSub(a, b) == Frac(a.n * b.d - b.n * a.d, a.d * b.d)

FracMul(a, b) ==
    LET g1 == GCD(Abs(a.n), b.d)
        g2 == GCD(Abs(b.n), a.d)
    IN Frac((a.n \div g1) * (b.n \div g2), (a.d \div g2) * (b.d \div g1))

FracDiv(a, b) == FracMul(a, [n |-> b.d, d |-> b.n])

FracLeq(a, b) == a.n * b.d <= b.n * a.d

FracMax(a, b) == IF FracLeq(a, b) THEN b ELSE a

FracMin(a, b) == IF FracLeq(a, b) THEN a ELSE b

Hundredths(h) == Frac(h, 100)

RECURSIVE SumSeq(_)
SumSeq(s) == IF s = <<>> THEN 0 ELSE Head(s) + SumSeq(Tail(s))

RECURSIVE FracSumSeq(_)
FracSumSeq(s) == IF s = <<>> THEN Frac(0, 1) ELSE FracAdd(Head(s), FracSumSeq(Tail(s)))

RECURSIVE Ascending(_)
Ascending(S) ==
    IF S = {} THEN <<>>
    ELSE LET m == CHOOSE x \in S : \A y \in S : x <= y
         IN <<m>> \o Ascending(S \ {m})

RECURSIVE SeqOfSet(_)
SeqOfSet(S) ==
    IF S = {} THEN <<>>
    ELSE LET m == CHOOSE x \in S : TRUE IN <<m>> \o SeqOfSet(S \ {m})

\* the list whose i-th element is f[i], every element evaluated once
RECURSIVE ListPrefix(_, _)
ListPrefix(f, n) == IF n = 0 THEN <<>> ELSE Append(ListPrefix(f, n - 1), f[n])

List(f) == ListPrefix(f, Cardinality(DOMAIN f))

Reversed(s) == List([i \in 1..Len(s) |-> s[Len(s) + 1 - i]])

\* list.sort(key=..., reverse=True) and sorted(..., reverse=True): stable,
\* descending in the key k[i] of the i-th element
SortedDescending_NotReversed(s, k) ==
    LET before(j, i) == k[j] < k[i] \/ (k[j] = k[i] /\ j < i)
        rank(i) == 1 + Cardinality({j \in 1..Len(s) : before(j, i)})
    IN List([r \in 1..Len(s) |-> s[CHOOSE i \in 1..Len(s) : rank(i) = r]])

SortedDescending(s, k) ==
    LET before(j, i) == k[j] > k[i] \/ (k[j] = k[i] /\ j < i)
        rank(i) == 1 + Cardinality({j \in 1..Len(s) : before(j, i)})
    IN List([r \in 1..Len(s) |-> s[CHOOSE i \in 1..Len(s) : rank(i) = r]])

\* dict.get(key, default) and getattr(object, name, default)
Get(d, k, default) == IF k \in DOMAIN d THEN d[k] ELSE default

Getattr(obj, name, default) == IF name \in DOMAIN obj THEN obj[name] ELSE default

\* statistics.mean and statistics.variance of a list of integers
mean(s) == Frac(SumSeq(s), Len(s))

variance(s) ==
    LET n == Len(s)
        sq == [i \in 1..n |-> s[i] * s[i]]
    IN Frac(n * SumSeq(sq) - SumSeq(s) * SumSeq(s), n * (n - 1))

\* round(x, 2) in hundredths; up says which way an exact half goes
IsHalfway(x) == FracMul(x, Frac(100, 1)).d = 2

round2(x, up) ==
    LET y == FracMul(x, Frac(100, 1))
        lower == y.n \div y.d
        rest == y.n % y.d
    IN IF 2 * rest < y.d THEN lower
       ELSE IF 2 * rest > y.d THEN lower + 1
       ELSE IF up THEN lower + 1 ELSE lower

(***************************************************************************)
(* The tables.  A row of PlayerGameweekStats is a record; NoRow stands for *)
(* the row that is not there (.first() returns None).  A Fixture has the   *)
(* columns of models/fixture.py.                                           *)
(***************************************************************************)
NoRow == [present |-> FALSE, expected_points |-> 0, expected_null |-> FALSE,
          points |-> 0, points_null |-> FALSE]

StatsRow(e, p) == [present |-> TRUE, expected_points |-> e, expected_null |-> FALSE,
                   points |-> p, points_null |-> FALSE]

NullPointsRow(e) == [present |-> TRUE, expected_points |-> e, expected_null |-> FALSE,
                     points |-> 0, points_null |-> TRUE]

NullExpectedRow(p) == [present |-> TRUE, expected_points |-> 0, expected_null |-> TRUE,
                       points |-> p, points_null |-> FALSE]

Fixture(gw, home, away, dh, da) ==
    [gameweek |-> gw, home_team_id |-> home, away_team_id |-> away,
     difficulty_home |-> dh, difficulty_away |-> da]

\* Query(...).first(): some row of the result, None (the empty set) if there
\* is none; pref is the row the database happens to return first
First(S, pref) ==
    IF S = {} THEN {}
    ELSE IF pref \in S THEN {pref} ELSE {CHOOSE f \in S : TRUE}

GameweekFixtures(team_id, gw) ==
    {f \in fixtures : f.gameweek = gw /\ (f.home_team_id = team_id \/ f.away_team_id = team_id)}

(***************************************************************************)
(* CaptainAdvisor                                                          *)
(***************************************************************************)
\* lines 20-25: keyed by '4'..'1', each value a one-element set (tenths)
position_weights == ("4" :> {12}) @@ ("3" :> {11}) @@ ("2" :> {9}) @@ ("1" :> {3})

\* line 80: self.position_weights.get(player['position'], 1.0)
position_multiplier(player) ==
    IF player.position \in DOMAIN position_weights
    THEN [number |-> FALSE, tenths |-> 0, weights |-> position_weights[player.position]]
    ELSE [number |-> TRUE, tenths |-> 10, weights |-> {}]

weekly_stats(player_id, gw) ==
    IF player_id \in DOMAIN stats /\ gw \in DOMAIN stats[player_id]
    THEN stats[player_id][gw] ELSE NoRow

\* as if a missing fixture were not checked for
get_fixture_score_NoCheck(team_id, gw, pref) ==
    LET fixture == First(GameweekFixtures(team_id, gw), pref)
        opponent_strength ==
            IF fixture = {} THEN 3
            ELSE Getattr(CHOOSE f \in fixture : TRUE, "difficulty", 3)
    IN (6 - opponent_strength) * 6

get_fixture_score(team_id, gw, pref) ==
    LET fixture == First(GameweekFixtures(team_id, gw), pref)
    IN IF fixture = {} THEN 0
       ELSE LET opponent_strength ==
                    Getattr(CHOOSE f \in fixture : TRUE, "difficulty", 3)
            IN (6 - opponent_strength) * 6

calculate_linear_slope(points_sequence) ==
    LET n == Len(points_sequence)
        total == SumSeq(points_sequence)
        \* (x - x_mean) * 2 and (y - y_mean) * n
        dx(i) == 2 * (i - 1) - (n - 1)
        dy(i) == n * points_sequence[i] - total
        numerator == Frac(SumSeq([i \in 1..n |-> dx(i) * dy(i)]), 2 * n)
        denominator == Frac(SumSeq([i \in 1..n |-> dx(i) * dx(i)]), 4)
    IN IF n < 2 THEN Frac(0, 1)
       ELSE IF denominator.n = 0 THEN Frac(0, 1)
       ELSE FracDiv(numerator, denominator)

trend_weights == <<10, 12, 14, 16, 20>>

calculate_trend_score(points_sequence) ==
    LET n == Len(points_sequence)
        slope == calculate_linear_slope(points_sequence)
        weights == IF Len(trend_weights) > n
                   THEN SubSeq(trend_weights, Len(trend_weights) - n + 1, Len(trend_weights))
                   ELSE trend_weights
        weighted_avg == Frac(SumSeq([i \in 1..n |-> points_sequence[i] * weights[i]]),
                             SumSeq(weights))
        overall_avg == mean(points_sequence)
        trend_indicator == FracAdd(FracMul(slope, Frac(7, 10)),
                                   FracMul(FracSub(weighted_avg, overall_avg), Frac(3, 10)))
    IN IF n < 3 THEN Frac(0, 1)
       ELSE FracMul(trend_indicator, Frac(5, 100))

\* the gameweeks of the five most recent rows of the player, oldest first
recent_gameweeks(player_id) ==
    LET rows == IF player_id \in DOMAIN stats
                THEN {g \in DOMAIN stats[player_id] : stats[player_id][g].present}
                ELSE {}
        recent == {g \in rows : Cardinality({h \in rows : h > g}) < 5}
    IN Ascending(recent)

\* as if the rows were left in the order of the query, newest first
get_form_trend_NewestFirst(player_id) ==
    LET gws == Reversed(recent_gameweeks(player_id))
        recent_points == List([i \in 1..Len(gws) |-> stats[player_id][gws[i]].points])
        raised == \E i \in 1..Len(gws) : stats[player_id][gws[i]].points_null
    IN IF Len(gws) < 3 THEN Frac(0, 1)
       ELSE IF raised THEN Frac(0, 1)
       ELSE FracMax(Frac(-2, 10), FracMin(Frac(2, 10), calculate_trend_score(recent_points)))

get_form_trend(player_id) ==
    LET gws == recent_gameweeks(player_id)
        recent_points == List([i \in 1..Len(gws) |-> stats[player_id][gws[i]].points])
        raised == \E i \in 1..Len(gws) : stats[player_id][gws[i]].points_null
    IN IF Len(gws) < 3 THEN Frac(0, 1)
       ELSE IF raised THEN Frac(0, 1)
       ELSE FracMax(Frac(-2, 10), FracMin(Frac(2, 10), calculate_trend_score(recent_points)))

get_home_advantage(team_id, gw) ==
    IF \E f \in fixtures : f.gameweek = gw /\ f.home_team_id = team_id THEN 10 ELSE 0

\* 0 stands for None
get_player_team_id(player_id) ==
    IF player_id \in DOMAIN players THEN players[player_id].team_id ELSE 0

get_player_fixture(player_id, gw, pref) ==
    LET player_team_id == get_player_team_id(player_id)
    IN IF player_team_id = 0 THEN {}
       ELSE First(GameweekFixtures(player_team_id, gw), pref)

get_performances_vs_opponent(player_id, opponent_id, current_gameweek) ==
    LET cutoff == current_gameweek - 2 * 38
        gameweek_cutoff == IF cutoff > 1 THEN cutoff ELSE 1
        player_team_id == get_player_team_id(player_id)
        historical_fixtures ==
            {f \in fixtures :
                /\ f.gameweek >= gameweek_cutoff
                /\ f.gameweek < current_gameweek
                /\ \/ f.home_team_id = player_team_id /\ f.away_team_id = opponent_id
                   \/ f.away_team_id = player_team_id /\ f.home_team_id = opponent_id}
        played == SeqOfSet({f \in historical_fixtures :
                               weekly_stats(player_id, f.gameweek).present})
    IN IF player_team_id = 0 THEN <<>>
       ELSE List([i \in 1..Len(played) |->
                [gameweek |-> played[i].gameweek,
                 points |-> weekly_stats(player_id, played[i].gameweek).points,
                 points_null |-> weekly_stats(player_id, played[i].gameweek).points_null,
                 was_home |-> played[i].home_team_id = player_team_id]])

PointsOf(performances) == List([i \in 1..Len(performances) |-> performances[i].points])

calculate_consistency_bonus(points_list) ==
    IF Len(points_list) < 2 THEN 0
    ELSE LET avg_points == mean(points_list)
             var == variance(points_list)
         IN IF FracLeq(Frac(6, 1), avg_points) /\ FracLeq(var, Frac(4, 1)) THEN 2
            ELSE IF FracLeq(Frac(4, 1), avg_points) /\ FracLeq(var, Frac(6, 1)) THEN 1
            ELSE 0

calculate_recency_bonus(performances) ==
    IF performances = <<>> THEN 0
    ELSE LET sorted_performances ==
                 SortedDescending(performances,
                                  List([i \in 1..Len(performances) |->
                                           performances[i].gameweek]))
             m == IF Len(sorted_performances) < 5 THEN Len(sorted_performances) ELSE 5
             weighted_score == FracSumSeq([i \in 1..m |->
                                   Frac(sorted_performances[i].points, i)])
             total_weight == FracSumSeq([i \in 1..m |-> Frac(1, i)])
             weighted_avg == FracDiv(weighted_score, total_weight)
         IN IF FracLeq(Frac(8, 1), weighted_avg) THEN 3
            ELSE IF FracLeq(Frac(6, 1), weighted_avg) THEN 2
            ELSE IF FracLeq(Frac(4, 1), weighted_avg) THEN 1
            ELSE 0

calculate_historical_bonus(performances, is_home) ==
    IF performances = <<>> THEN 0
    ELSE LET home_performances == SelectSeq(performances, LAMBDA p : p.was_home)
             away_performances == SelectSeq(performances, LAMBDA p : ~p.was_home)
             overall_avg == mean(PointsOf(performances))
             context == IF is_home /\ home_performances # <<>>
                        THEN [avg |-> mean(PointsOf(home_performances)), weight |-> 7]
                        ELSE IF ~is_home /\ away_performances # <<>>
                        THEN [avg |-> mean(PointsOf(away_performances)), weight |-> 7]
                        ELSE [avg |-> overall_avg, weight |-> 5]
             weighted_avg == FracAdd(FracMul(context.avg, Frac(context.weight, 10)),
                                     FracMul(overall_avg, Frac(10 - context.weight, 10)))
             base_bonus == IF FracLeq(Frac(8, 1), weighted_avg) THEN 15
                           ELSE IF FracLeq(Frac(6, 1), weighted_avg) THEN 10
                           ELSE IF FracLeq(Frac(4, 1), weighted_avg) THEN 5
                           ELSE 0
             consistency_bonus == IF Len(performances) >= 3
                                  THEN calculate_consistency_bonus(PointsOf(performances))
                                  ELSE 0
         IN base_bonus + consistency_bonus + calculate_recency_bonus(performances)

\* the bonus as computed, without the final clamp
get_historical_performance_Unclamped(player_id, gw, pref) ==
    LET current_fixture == get_player_fixture(player_id, gw, pref)
        player_team_id == get_player_team_id(player_id)
        fixture == CHOOSE f \in current_fixture : TRUE
        is_home == fixture.home_team_id = player_team_id
        opponent_id == IF is_home THEN fixture.away_team_id ELSE fixture.home_team_id
        historical_performances ==
            get_performances_vs_opponent(player_id, opponent_id, gw)
        \* statistics.mean of a list holding None raises; the handler returns 0.0
        raised == \E i \in 1..Len(historical_performances) :
                     historical_performances[i].points_null
        performance_bonus == calculate_historical_bonus(historical_performances, is_home)
    IN IF current_fixture = {} THEN 0
       ELSE IF player_team_id = 0 THEN 0
       ELSE IF historical_performances = <<>> THEN 0
       ELSE IF raised THEN 0
       ELSE performance_bonus

get_historical_performance(player_id, gw, pref) ==
    LET current_fixture == get_player_fixture(player_id, gw, pref)
        player_team_id == get_player_team_id(player_id)
        fixture == CHOOSE f \in current_fixture : TRUE
        is_home == fixture.home_team_id = player_team_id
        opponent_id == IF is_home THEN fixture.away_team_id ELSE fixture.home_team_id
        historical_performances ==
            get_performances_vs_opponent(player_id, opponent_id, gw)
        \* statistics.mean of a list holding None raises; the handler returns 0.0
        raised == \E i \in 1..Len(historical_performances) :
                     historical_performances[i].points_null
        performance_bonus == calculate_historical_bonus(historical_performances, is_home)
    IN IF current_fixture = {} THEN 0
       ELSE IF player_team_id = 0 THEN 0
       ELSE IF historical_performances = <<>> THEN 0
       ELSE IF raised THEN 0
       ELSE Max0(IF performance_bonus < 15 THEN performance_bonus ELSE 15)

\* the sum of the bonuses without the leading 1
score_factor_BonusesOnly(player, gw, pref) ==
    FracAdd(Hundredths(get_fixture_score(player.team_id, gw, pref)
                           + get_home_advantage(player.team_id, gw)
                           + get_historical_performance(player.id, gw, pref)),
            get_form_trend(player.id))

\* lines 94-97, before rounding: 1 + fixture_score + form_score + home_bonus
\* + history_bonus
score_factor(player, gw, pref) ==
    FracAdd(Hundredths(100 + get_fixture_score(player.team_id, gw, pref)
                           + get_home_advantage(player.team_id, gw)
                           + get_historical_performance(player.id, gw, pref)),
            get_form_trend(player.id))

total_score(player, gw, pref) ==
    LET row == weekly_stats(player.id, gw)
        base_score == IF row.expected_null THEN 0 ELSE row.expected_points
    IN FracMul(Frac(base_score * position_multiplier(player).tenths, 10),
               score_factor(player, gw, pref))

\* as if a missing row were not checked for: None.expected_points raises
calculate_captain_score_NoRowCheck(player, gw, pref, up) ==
    IF ~weekly_stats(player.id, gw).present THEN [raised |-> TRUE, score |-> 0]
    ELSE IF ~position_multiplier(player).number THEN [raised |-> TRUE, score |-> 0]
    ELSE [raised |-> FALSE, score |-> round2(total_score(player, gw, pref), up)]

\* float * set raises TypeError, which nothing catches
calculate_captain_score(player, gw, pref, up) ==
    IF ~weekly_stats(player.id, gw).present THEN [raised |-> FALSE, score |-> 0]
    ELSE IF ~position_multiplier(player).number THEN [raised |-> TRUE, score |-> 0]
    ELSE [raised |-> FALSE, score |-> round2(total_score(player, gw, pref), up)]

get_captain_reasons(player, gw, pref) ==
    (IF player.expected_points > 8 THEN <<"High expected points">> ELSE <<>>)
    \o (IF get_home_advantage(player.team_id, gw) > 0 THEN <<"Playing at home">> ELSE <<>>)
    \o (IF get_fixture_score(player.team_id, gw, pref) > 15
        THEN <<"Favorable fixture">> ELSE <<>>)
    \o (IF player.position \in {"FWD", "MID"}
        THEN <<"Good attacking returns potential">> ELSE <<>>)

\* the entries whose score before rounding lies half-way between two hundredths
HalfwayEntries(tm, gw, pref) ==
    {i \in 1..Len(tm) :
        /\ weekly_stats(tm[i].id, gw).present
        /\ position_multiplier(tm[i]).number
        /\ IsHalfway(total_score(tm[i], gw, pref))}

\* lines 46-54: one entry per player, raised when the score computation raises
captain_scores(tm, gw, pref, ups) ==
    List([i \in 1..Len(tm) |->
            LET outcome == calculate_captain_score(tm[i], gw, pref, i \in ups)
            IN [player |-> tm[i],
                raised |-> outcome.raised,
                score |-> outcome.score,
                reasons |-> get_captain_reasons(tm[i], gw, pref)]])

CaptainEntry(e) == [player |-> e.player, score |-> e.score, reasons |-> e.reasons]

CaptainRaised == [status |-> "raised", captain |-> <<>>, vice_captain |-> <<>>,
                  alternatives |-> <<>>]

\* lines 56-63: the sort and the three slices of the scored entries
rank_captains(scores) ==
    LET n == Len(scores)
        entries == List([i \in 1..n |-> CaptainEntry(scores[i])])
        sorted == SortedDescending(entries, List([i \in 1..n |-> scores[i].score]))
        last == IF n < 5 THEN n ELSE 5
    IN IF \E i \in 1..n : scores[i].raised
       THEN CaptainRaised
       ELSE IF n < 2 THEN CaptainRaised    \* IndexError
       ELSE [status |-> "ok", captain |-> sorted[1], vice_captain |-> sorted[2],
             alternatives |-> SubSeq(sorted, 3, last)]

suggest_captain(tm, gw, pref, ups) == rank_captains(captain_scores(tm, gw, pref, ups))

(***************************************************************************)
(* ChipAdvisor._analyze_triple_captain                                     *)
(***************************************************************************)
get_team_fixtures(team_id, start_gw, end_gw) ==
    {f \in fixtures : /\ f.gameweek >= start_gw
                      /\ f.gameweek <= end_gw
                      /\ (f.home_team_id = team_id \/ f.away_team_id = team_id)}

player_has_double_gameweek(team_id, gw) ==
    Cardinality(get_team_fixtures(team_id, gw, gw)) > 1

\* round(extra_points, 1) of a score in hundredths, in tenths
round1(score, up) ==
    LET lower == score \div 10
        rest == score % 10
    IN IF rest < 5 THEN lower ELSE IF rest > 5 THEN lower + 1
       ELSE IF up THEN lower + 1 ELSE lower

triple_captain_advice_ScoreOnly(captain_suggestion, gw, up) ==
    LET best_captain == captain_suggestion.captain
        extra_points == best_captain.score
    IN IF captain_suggestion.status = "raised" THEN [status |-> "raised"]
       ELSE [status |-> "ok",
             best_candidate |-> best_captain.player.id,
             expected_extra_points |-> round1(extra_points, up),
             urgency |-> IF extra_points > 800 THEN "High"
                         ELSE IF extra_points > 500 THEN "Medium" ELSE "Low",
             reasons |-> best_captain.reasons,
             best_timing |-> "Save for double gameweek or easy home fixture"]

\* lines 566-592, on the suggestion of line 565
triple_captain_advice(captain_suggestion, gw, up) ==
    LET best_captain == captain_suggestion.captain
        extra_points == best_captain.score
        has_double_gameweek == player_has_double_gameweek(best_captain.player.team_id, gw)
    IN IF captain_suggestion.status = "raised" THEN [status |-> "raised"]
       ELSE [status |-> "ok",
             best_candidate |-> best_captain.player.id,
             expected_extra_points |-> round1(extra_points, up),
             urgency |-> IF has_double_gameweek THEN "High"
                         ELSE IF extra_points > 800 THEN "High"
                         ELSE IF extra_points > 500 THEN "Medium" ELSE "Low",
             reasons |-> IF has_double_gameweek
                         THEN Append(best_captain.reasons, "Player has double gameweek")
                         ELSE best_captain.reasons,
             best_timing |-> "Save for double gameweek or easy home fixture"]

analyze_triple_captain(tm, gw, pref, ups, up) ==
    triple_captain_advice(suggest_captain(tm, gw, pref, ups), gw, up)

(***************************************************************************)
(* ChipAdvisor: the wildcard, bench-boost and free-hit analyses and        *)
(* analyze_chip_usage.  A timing is the gameweek the text names.           *)
(***************************************************************************)
get_fixture_score_from_fixture(fixture, team_id) ==
    IF fixture.home_team_id = team_id THEN fixture.difficulty_home
    ELSE fixture.difficulty_away

\* sum(1 for ... if ...): the number of entries that are true
Count(flags) == Cardinality({i \in 1..Len(flags) : flags[i]})

BadFixtureGameweeks == 5

count_bad_fixtures(tm, gw) ==
    LET bad(player) ==
            Cardinality({f \in get_team_fixtures(player.team_id, gw,
                                                 gw + BadFixtureGameweeks - 1) :
                           get_fixture_score_from_fixture(f, player.team_id) > 3})
                >= BadFixtureGameweeks \div 2
    IN Count(List([i \in 1..Len(tm) |-> bad(tm[i])]))

\* min(1.0, total_expected / (total_price * 0.5)); a total price of 0 raises
\* ZeroDivisionError
calculate_team_value_efficiency(tm) ==
    LET total_price == SumSeq(List([i \in 1..Len(tm) |-> tm[i].price]))
        total_expected == SumSeq(List([i \in 1..Len(tm) |-> tm[i].expected_points]))
    IN IF total_price = 0 THEN [raised |-> TRUE, value |-> Frac(0, 1)]
       ELSE [raised |-> FALSE,
             value |-> FracMin(Frac(1, 1), Frac(2 * total_expected, total_price))]

\* round(x, 1) of a fraction, in tenths; up decides an exact half
round1_of(x, up) ==
    LET lower == (10 * x.n) \div x.d
        rest == 10 * x.n - lower * x.d
    IN IF 2 * rest < x.d THEN lower
       ELSE IF 2 * rest > x.d THEN lower + 1
       ELSE IF up THEN lower + 1 ELSE lower

wildcard_advice(unavailable_count, bad_fixture_count, value_efficiency, gw, up) ==
    LET urgency_score ==
            FracAdd(Frac(unavailable_count * 2 + bad_fixture_count, 1),
                    FracMul(FracSub(Frac(1, 1), value_efficiency), Frac(5, 1)))
    IN [status |-> "ok",
        urgency |-> IF ~FracLeq(urgency_score, Frac(6, 1)) THEN "High"
                    ELSE IF ~FracLeq(urgency_score, Frac(3, 1)) THEN "Medium" ELSE "Low",
        score |-> round1_of(urgency_score, up),
        reasons |-> (IF unavailable_count > 2 THEN <<"players unavailable">> ELSE <<>>)
                    \o (IF bad_fixture_count > 5
                        THEN <<"players with difficult fixtures">> ELSE <<>>)
                    \o (IF ~FracLeq(Frac(8, 10), value_efficiency)
                        THEN <<"Team value could be optimized">> ELSE <<>>),
        best_timing |-> gw + 2]

analyze_wildcard(tm, gw, up) ==
    LET notAvailable(p) == Get(p, "status", "None") # "a"
        efficiency == calculate_team_value_efficiency(tm)
    IN IF efficiency.raised THEN [status |-> "raised"]
       ELSE wildcard_advice(Count(List([i \in 1..Len(tm) |-> notAvailable(tm[i])])),
                            count_bad_fixtures(tm, gw),
                            efficiency.value, gw, up)

count_double_gameweeks(tm, gw) ==
    LET double(player) == Cardinality(get_team_fixtures(player.team_id, gw, gw)) > 1
    IN Count(List([i \in 1..Len(tm) |-> double(tm[i])]))

\* ChipAdvisor._get_fixture_score: the average difficulty the club sees
chip_fixture_score(team_id, gw) ==
    LET seen == SeqOfSet(get_team_fixtures(team_id, gw, gw))
        scores == List([i \in 1..Len(seen) |->
                          get_fixture_score_from_fixture(seen[i], team_id)])
    IN IF Len(seen) = 0 THEN Frac(0, 1) ELSE Frac(SumSeq(scores), Len(scores))

bench_boost_advice(bench_expected, double_gameweek_count, bench_fixture_score, gw) ==
    [status |-> "ok",
     expected_points |-> 10 * bench_expected,
     urgency |-> IF bench_expected > 15 THEN "High"
                 ELSE IF bench_expected > 10 THEN "Medium" ELSE "Low",
     reasons |-> (IF double_gameweek_count > 2
                  THEN <<"bench players have double gameweek">> ELSE <<>>)
                 \o (IF bench_expected > 12 THEN <<"Strong bench">> ELSE <<>>)
                 \o (IF ~FracLeq(bench_fixture_score, Frac(5, 10))
                     THEN <<"Bench players have favorable fixtures">> ELSE <<>>),
     best_timing |-> gw + 5]

analyze_bench_boost(tm, gw) ==
    LET bench_players == SelectSeq(tm, LAMBDA p : Get(p, "is_bench", FALSE))
        n == Len(bench_players)
    IN bench_boost_advice(
          SumSeq(List([i \in 1..n |-> bench_players[i].expected_points])),
          count_double_gameweeks(tm, gw),
          FracSumSeq(List([i \in 1..n |-> chip_fixture_score(bench_players[i].team_id, gw)])),
          gw)

count_no_fixtures(tm, gw) ==
    LET blank(player) == get_team_fixtures(player.team_id, gw, gw) = {}
    IN Count(List([i \in 1..Len(tm) |-> blank(tm[i])]))

free_hit_advice_FromSix(no_fixture_count, gw) ==
    [status |-> "ok",
     players_without_fixture |-> no_fixture_count,
     urgency |-> IF no_fixture_count >= 6 THEN "High" ELSE "Low",
     reasons |-> IF no_fixture_count >= 6 THEN <<"players have no fixture">> ELSE <<>>,
     best_timing |-> gw + 10]

free_hit_advice(no_fixture_count, gw) ==
    [status |-> "ok",
     players_without_fixture |-> no_fixture_count,
     urgency |-> IF no_fixture_count > 6 THEN "High" ELSE "Low",
     reasons |-> IF no_fixture_count > 6 THEN <<"players have no fixture">> ELSE <<>>,
     best_timing |-> gw + 10]

analyze_free_hit(tm, gw) == free_hit_advice(count_no_fixtures(tm, gw), gw)

ChipNames == {"wildcard", "bench_boost", "triple_captain", "free_hit"}

\* lines 485-497: the chips whose analysis runs
AnalysedChips(used) == {c \in ChipNames : ~Get(used, c, FALSE)}

\* the recommendations of the analyses that ran, raised when one of them raised
chip_recommendations(analysed, wildcard, bench_boost, triple_captain, free_hit) ==
    LET all == [c \in ChipNames |->
                   CASE c = "wildcard" -> wildcard
                     [] c = "bench_boost" -> bench_boost
                     [] c = "triple_captain" -> triple_captain
                     [] OTHER -> free_hit]
    IN IF \E c \in analysed : all[c].status = "raised"
       THEN [status |-> "raised", recommendations |-> <<>>]
       ELSE [status |-> "ok", recommendations |-> [c \in analysed |-> all[c]]]

analyze_chip_usage(tm, gw, used, pref, ups, up, wup) ==
    chip_recommendations(AnalysedChips(used),
                         analyze_wildcard(tm, gw, wup),
                         analyze_bench_boost(tm, gw),
                         IF "triple_captain" \in AnalysedChips(used)
                         THEN analyze_triple_captain(tm, gw, pref, ups, up)
                         ELSE [status |-> "skipped"],
                         analyze_free_hit(tm, gw))

(***************************************************************************)
(* TransferAdvisor._identify_priority_transfers                            *)
(***************************************************************************)
priority_status(player) ==
    IF Get(player, "status", "None") = "i" THEN [urgency |-> 3, reasons |-> <<"Injured">>]
    ELSE IF Get(player, "status", "None") = "s"
    THEN [urgency |-> 3, reasons |-> <<"Suspended">>]
    ELSE IF Get(player, "status", "None") = "d"
    THEN [urgency |-> 1, reasons |-> <<"Doubtful to play">>]
    ELSE [urgency |-> 0, reasons |-> <<>>]

\* as if a fall of exactly 0.2 counted
priority_entry_FallAtThreshold(player) ==
    LET st == priority_status(player)
        falling == Get(player, "price_change", 0) <= -2
    IN [player |-> player,
        urgency |-> st.urgency + (IF falling THEN 1 ELSE 0),
        reasons |-> st.reasons \o (IF falling THEN <<"Falling in price">> ELSE <<>>)]

\* price_change is in tenths: -0.2 is -2
priority_entry(player) ==
    LET st == priority_status(player)
        falling == Get(player, "price_change", 0) < -2
    IN [player |-> player,
        urgency |-> st.urgency + (IF falling THEN 1 ELSE 0),
        reasons |-> st.reasons \o (IF falling THEN <<"Falling in price">> ELSE <<>>)]

identify_priority_transfers(current_team) ==
    LET entries == List([i \in 1..Len(current_team) |-> priority_entry(current_team[i])])
        priority == SelectSeq(entries, LAMBDA e : e.urgency > 0)
    IN SortedDescending(priority, List([i \in 1..Len(priority) |-> priority[i].urgency]))

(***************************************************************************)
(* TransferAdvisor._identify_value_transfers, _identify_longterm_transfers *)
(* and _calculate_fixture_run.  price_change is in tenths.                 *)
(***************************************************************************)
FixtureRunGameweeks == 6

\* the average of the difficulties the club sees in the window, 0 without a
\* fixture in it
calculate_fixture_run(team_id, start_gw) ==
    LET end_gw == start_gw + FixtureRunGameweeks
        run == {f \in fixtures : /\ f.gameweek >= start_gw
                                 /\ f.gameweek < end_gw
                                 /\ (f.home_team_id = team_id \/ f.away_team_id = team_id)}
        seen == SeqOfSet(run)
        difficulty_sum ==
            SumSeq(List([i \in 1..Len(seen) |->
                           IF seen[i].home_team_id = team_id
                           THEN seen[i].difficulty_home ELSE seen[i].difficulty_away]))
    IN IF run = {} THEN Frac(0, 1) ELSE Frac(difficulty_sum, Len(seen))

\* lines 821-828: the points of the fixture run
fixture_run_points(fixture_score) ==
    IF ~FracLeq(fixture_score, Frac(3, 10)) THEN 3
    ELSE IF ~FracLeq(fixture_score, Frac(15, 100)) THEN 1
    ELSE 0

InTeam(player, current_team) ==
    \E i \in 1..Len(current_team) : current_team[i].id = player.id

value_entry(player, gw) ==
    LET rising == Get(player, "price_change", 0) > 1
        run == fixture_run_points(calculate_fixture_run(player.team_id, gw))
        high == player.expected_points > 7
        form == Get(player, "form", 0) > 6
    IN [player |-> player,
        value_score |-> (IF rising THEN 2 ELSE 0) + run
                            + (IF high THEN 2 ELSE 0) + (IF form THEN 1 ELSE 0),
        reasons |-> (IF rising THEN <<"Rising in price">> ELSE <<>>)
                    \o (IF run = 3 THEN <<"Excellent fixture run">>
                        ELSE IF run = 1 THEN <<"Good upcoming fixtures">> ELSE <<>>)
                    \o (IF high THEN <<"High expected points">> ELSE <<>>)
                    \o (IF form THEN <<"Excellent recent form">> ELSE <<>>)]

\* s[:n]
Prefix(s, n) == SubSeq(s, 1, IF Len(s) < n THEN Len(s) ELSE n)

\* as if a score of exactly 2 qualified
value_list_FromTwo(entries) ==
    LET value_transfers == SelectSeq(entries, LAMBDA e : e.value_score >= 2)
        n == Len(value_transfers)
    IN Prefix(SortedDescending(value_transfers,
                               List([i \in 1..n |-> value_transfers[i].value_score])), 10)

value_list(entries) ==
    LET value_transfers == SelectSeq(entries, LAMBDA e : e.value_score > 2)
        n == Len(value_transfers)
    IN Prefix(SortedDescending(value_transfers,
                             List([i \in 1..n |-> value_transfers[i].value_score])), 10)

identify_value_transfers(current_team, available_players, gw) ==
    LET pool == SelectSeq(available_players, LAMBDA p : ~InTeam(p, current_team))
    IN value_list(List([i \in 1..Len(pool) |-> value_entry(pool[i], gw)]))

\* expected_points / price: None stands for the ZeroDivisionError
points_per_million(player) ==
    IF player.price = 0 THEN [raised |-> TRUE, value |-> Frac(0, 1)]
    ELSE [raised |-> FALSE, value |-> Frac(player.expected_points, player.price)]

\* as if a ratio of exactly 1.5 counted
longterm_entry_FromThreshold(player) ==
    LET high == player.expected_points > 8
        value == FracLeq(Frac(15, 10), points_per_million(player).value)
        penalties == Get(player, "penalties", FALSE)
    IN [player |-> player,
        longterm_score |-> (IF high THEN 3 ELSE 0) + (IF value THEN 2 ELSE 0)
                               + (IF penalties THEN 1 ELSE 0),
        reasons |-> (IF high THEN <<"Consistent high scorer">> ELSE <<>>)
                    \o (IF value THEN <<"Excellent value">> ELSE <<>>)
                    \o (IF penalties THEN <<"Takes penalties">> ELSE <<>>)]

longterm_entry(player) ==
    LET high == player.expected_points > 8
        value == ~FracLeq(points_per_million(player).value, Frac(15, 10))
        penalties == Get(player, "penalties", FALSE)
    IN [player |-> player,
        longterm_score |-> (IF high THEN 3 ELSE 0) + (IF value THEN 2 ELSE 0)
                               + (IF penalties THEN 1 ELSE 0),
        reasons |-> (IF high THEN <<"Consistent high scorer">> ELSE <<>>)
                    \o (IF value THEN <<"Excellent value">> ELSE <<>>)
                    \o (IF penalties THEN <<"Takes penalties">> ELSE <<>>)]

longterm_list(entries) ==
    LET longterm == SelectSeq(entries, LAMBDA e : e.longterm_score > 3)
        n == Len(longterm)
    IN Prefix(SortedDescending(longterm,
                             List([i \in 1..n |-> longterm[i].longterm_score])), 5)

identify_longterm_transfers(current_team, available_players) ==
    LET pool == SelectSeq(available_players, LAMBDA p : ~InTeam(p, current_team))
    IN IF \E i \in 1..Len(pool) : points_per_million(pool[i]).raised
       THEN [status |-> "raised", list |-> <<>>]
       ELSE [status |-> "ok",
             list |-> longterm_list(List([i \in 1..Len(pool) |-> longterm_entry(pool[i])]))]

(***************************************************************************)
(* The snapshot the advisors read along with the optimizer's: the squad    *)
(* list built by get_current_team, three recent rows of statistics per     *)
(* player, and the fixtures of the current and the previous gameweek.      *)
\* TransferAdvisor._generate_transfer_summary: the names the text lists,
\* class by class, or the text for three empty lists
generate_transfer_summary(priority, value, longterm) ==
    LET ids(list) == List([i \in 1..Len(list) |-> list[i].player.id])
        summary_parts ==
            (IF priority # <<>> THEN <<[part |-> "Urgent transfers needed", players |-> ids(priority)]>> ELSE <<>>)
            \o (IF value # <<>> THEN <<[part |-> "Good value opportunities", players |-> ids(value)]>> ELSE <<>>)
            \o (IF longterm # <<>> THEN <<[part |-> "Season keeper options", players |-> ids(longterm)]>> ELSE <<>>)
    IN IF summary_parts = <<>> THEN <<[part |-> "No immediate transfers recommended", players |-> <<>>]>>
       ELSE summary_parts

\* lines 748-767: the result assembled around one outcome of the optimizer
transfer_recommendations(priority_transfers, value_transfers, longterm_transfers, outcome) ==
    LET optimal_result == IF outcome.status = "raised"
                          THEN [transfers_in |-> {}, transfers_out |-> {}]
                          ELSE outcome
    IN [status |-> "ok",
        priority_transfers |-> priority_transfers,
        value_transfers |-> value_transfers,
        longterm_transfers |-> longterm_transfers,
        optimal_transfers |-> [in |-> optimal_result.transfers_in,
                               out |-> optimal_result.transfers_out],
        summary |-> generate_transfer_summary(priority_transfers, value_transfers,
                                              longterm_transfers)]

(***************************************************************************)
Gameweeks == 1..6
CurrentGameweeks == {6}

CurrentTeamList ==
    LET ids == Ascending(get_current_team)
    IN [i \in 1..Len(ids) |-> PlayerDict(ids[i])]

\* the list get_available_players builds, in the order of the ids
AvailableList ==
    LET ids == Ascending(get_available_players)
    IN [i \in 1..Len(ids) |-> PlayerDict(ids[i])]

DefaultStats ==
    [i \in DOMAIN players |->
        [g \in Gameweeks |->
            IF g = 6 THEN StatsRow(players[i].form, 0)
            ELSE IF g >= 4 THEN StatsRow(players[i].form, (i + g) % 7)
            ELSE NoRow]]

DefaultFixtures ==
    {Fixture(6, 1, 2, 2, 4), Fixture(6, 3, 4, 3, 3), Fixture(6, 5, 1, 4, 2),
     Fixture(5, 2, 1, 3, 3), Fixture(4, 1, 2, 3, 3)}

NoChipsUsed == [c \in {} |-> FALSE]

NoAdvice == [op |-> "none"]

NoFixture == Fixture(0, 0, 0, 0, 0)

\* the fixtures of the current gameweek that share a club with another one:
\* any of them may be the row a .first() returns
FirstRows ==
    LET ambiguous ==
            {f \in fixtures :
                /\ f.gameweek = gameweek
                /\ \E g \in fixtures \ {f} :
                      /\ g.gameweek = gameweek
                      /\ {f.home_team_id, f.away_team_id}
                            \cap {g.home_team_id, g.away_team_id} # {}}
    IN IF ambiguous = {} THEN {NoFixture} ELSE ambiguous

(***************************************************************************)
(* State machine.                                                          *)
(***************************************************************************)
NoResult ==
    [status |-> "none", call |-> [budget |-> 0, free_transfers |-> 0,
                                   transfer_cost |-> 0, gameweeks_ahead |-> 0],
     selected_team |-> {}, transfers_in |-> {}, transfers_out |-> {},
     transfer_cost |-> 0, total_expected_points |-> 0, remaining_budget |-> 0]

NoWildcard == [status |-> "none", budget |-> 0, team |-> {}]

Init ==
    /\ players \in {PlayerTable(pid, club, cost, form, st15, st17) :
                      pid \in ExtraPositionIds, club \in ExtraClubs,
                      cost \in ExtraPrices, form \in ExtraPoints,
                      st15 \in {"a", "i"}, st17 \in {"a", "u"}}
    /\ picks \in {BaseIds, BaseIds \cup {SquadSize + 1}}
    /\ pc = "idle"
    /\ result = NoResult
    /\ prev_result = NoResult
    /\ wildcard_result = NoWildcard
    /\ team = CurrentTeamList
    /\ gameweek \in CurrentGameweeks
    /\ stats = DefaultStats
    /\ fixtures = DefaultFixtures
    /\ chips_used = NoChipsUsed
    /\ advice = NoAdvice
    /\ available = AvailableList

OptimizeTransfers ==
    /\ pc = "idle"
    /\ \E b \in Budgets, f \in 0..MaxFree, g \in 1..MaxAhead :
         \E r \in optimize_transfers(get_current_team, get_available_players,
                    [budget |-> b, free_transfers |-> f,
                     transfer_cost |-> DefaultTransferCost, gameweeks_ahead |-> g]) :
            result' = r
    /\ pc' = "optimized"
    /\ UNCHANGED <<players, picks, prev_result, wildcard_result>>
    /\ UNCHANGED advisorVars

\* a second call with the arguments of the first
OptimizeTransfersAgain ==
    /\ pc = "optimized"
    /\ \E r \in optimize_transfers(get_current_team, get_available_players, result.call) :
            result' = r
    /\ prev_result' = result
    /\ pc' = "rerun"
    /\ UNCHANGED <<players, picks, wildcard_result>>
    /\ UNCHANGED advisorVars

OptimizeWildcard ==
    /\ pc = "idle"
    /\ \E b \in WildcardBudgets :
         \E w \in optimize_wildcard(get_available_players, b) : wildcard_result' = w
    /\ pc' = "wildcard"
    /\ UNCHANGED <<players, picks, result, prev_result>>
    /\ UNCHANGED advisorVars

run_enhanced_optimizer ==
    /\ pc = "idle"
    /\ picks # {}
    /\ \E r \in optimize_transfers(get_current_team, get_available_players,
                  [budget |-> EnhancedBudget, free_transfers |-> DefaultFreeTransfers,
                   transfer_cost |-> DefaultTransferCost,
                   gameweeks_ahead |-> EnhancedGameweeksAhead]) :
         /\ result' = r
         /\ IF r.status = "raised"
            THEN \E w \in optimize_wildcard(get_available_players, EnhancedBudget) :
                    wildcard_result' = w
            ELSE wildcard_result' = wildcard_result
    /\ pc' = "enhanced"
    /\ UNCHANGED <<players, picks, prev_result>>
    /\ UNCHANGED advisorVars

Next ==
    \/ OptimizeTransfers
    \/ OptimizeTransfersAgain
    \/ OptimizeWildcard
    \/ run_enhanced_optimizer

Spec == Init /\ [][Next]_vars

(***************************************************************************)
(* The advisors' operations.  Each is a call on the snapshot at rest.      *)
(***************************************************************************)
optimizerVars == <<players, picks, result, prev_result, wildcard_result>>

\* as if the squad list itself were sorted by score
SuggestCaptain_SortsTeam ==
    /\ pc = "idle"
    /\ \E pref \in FirstRows :
         \E ups \in SUBSET HalfwayEntries(team, gameweek, pref) :
            LET scores == captain_scores(team, gameweek, pref, ups)
            IN /\ advice' = [op |-> "suggest_captain",
                             value |-> suggest_captain(team, gameweek, pref, ups)]
               /\ team' = SortedDescending(team,
                              List([i \in 1..Len(team) |-> scores[i].score]))
    /\ pc' = "captain"
    /\ UNCHANGED <<gameweek, stats, fixtures, chips_used, available>>
    /\ UNCHANGED optimizerVars

SuggestCaptain ==
    /\ pc = "idle"
    /\ \E pref \in FirstRows :
         \E ups \in SUBSET HalfwayEntries(team, gameweek, pref) :
            advice' = [op |-> "suggest_captain",
                       value |-> suggest_captain(team, gameweek, pref, ups)]
    /\ pc' = "captain"
    /\ UNCHANGED <<team, gameweek, stats, fixtures, chips_used, available>>
    /\ UNCHANGED optimizerVars

IdentifyPriorityTransfers ==
    /\ pc = "idle"
    /\ advice' = [op |-> "identify_priority_transfers",
                  value |-> identify_priority_transfers(team)]
    /\ pc' = "priority"
    /\ UNCHANGED <<team, gameweek, stats, fixtures, chips_used, available>>
    /\ UNCHANGED optimizerVars

\* analyze_chip_usage, lines 493-494: run unless the chip is marked used
AnalyzeTripleCaptain ==
    /\ pc = "idle"
    /\ ~Get(chips_used, "triple_captain", FALSE)
    /\ \E pref \in FirstRows :
         \E ups \in SUBSET HalfwayEntries(team, gameweek, pref) :
            \E up \in BOOLEAN :
               advice' = [op |-> "analyze_triple_captain",
                          value |-> analyze_triple_captain(team, gameweek, pref, ups, up)]
    /\ pc' = "triple_captain"
    /\ UNCHANGED <<team, gameweek, stats, fixtures, chips_used, available>>
    /\ UNCHANGED optimizerVars

AnalyzeChipUsage ==
    /\ pc = "idle"
    /\ \E pref \in FirstRows :
         \E ups \in SUBSET HalfwayEntries(team, gameweek, pref) :
            \E up \in BOOLEAN, wup \in BOOLEAN :
               advice' = [op |-> "analyze_chip_usage",
                          value |-> analyze_chip_usage(team, gameweek, chips_used,
                                                       pref, ups, up, wup)]
    /\ pc' = "chips"
    /\ UNCHANGED <<team, gameweek, stats, fixtures, chips_used, available>>
    /\ UNCHANGED optimizerVars

IdentifyValueTransfers ==
    /\ pc = "idle"
    /\ advice' = [op |-> "identify_value_transfers",
                  value |-> identify_value_transfers(team, available, gameweek)]
    /\ pc' = "value"
    /\ UNCHANGED <<team, gameweek, stats, fixtures, chips_used, available>>
    /\ UNCHANGED optimizerVars

IdentifyLongtermTransfers ==
    /\ pc = "idle"
    /\ advice' = [op |-> "identify_longterm_transfers",
                  value |-> identify_longterm_transfers(team, available)]
    /\ pc' = "longterm"
    /\ UNCHANGED <<team, gameweek, stats, fixtures, chips_used, available>>
    /\ UNCHANGED optimizerVars

(***************************************************************************)
(* The snapshots explored for the advisors.  Each family varies one part   *)
(* of what the Scoring Engine reads and keeps the rest fixed.              *)
(***************************************************************************)
\* TransferAdvisor.get_transfer_recommendations; result keeps the outcome of
\* the call of optimize_transfers at lines 749-751
GetTransferRecommendations ==
    /\ pc = "idle"
    /\ LET longterm == identify_longterm_transfers(team, available)
       IN IF longterm.status = "raised"
          THEN /\ advice' = [op |-> "get_transfer_recommendations",
                             value |-> [status |-> "raised"]]
               /\ result' = result
          ELSE \E b \in Budgets :
                 \E r \in optimize_transfers(get_current_team, get_available_players,
                            [budget |-> b, free_transfers |-> DefaultFreeTransfers,
                             transfer_cost |-> DefaultTransferCost, gameweeks_ahead |-> 1]) :
                    /\ result' = r
                    /\ advice' = [op |-> "get_transfer_recommendations",
                                  value |-> transfer_recommendations(
                                                identify_priority_transfers(team),
                                                identify_value_transfers(team, available, gameweek),
                                                longterm.list, r)]
    /\ pc' = "recommended"
    /\ UNCHANGED <<players, picks, prev_result, wildcard_result>>
    /\ UNCHANGED <<team, gameweek, stats, fixtures, chips_used, available>>

AdvisorRow(pid, club, form) ==
    [position_id |-> pid, team_id |-> club, now_cost |-> 5, form |-> form, status |-> "a"]

\* the dict get_current_team builds from a row of the players table
AdvisorDict(i, row) ==
    [id |-> i, position |-> position_map[row.position_id], price |-> row.now_cost,
     expected_points |-> row.form, team_id |-> row.team_id]

\* the dict with one more key
WithKey(d, k, v) == [x \in DOMAIN d \cup {k} |-> IF x = k THEN v ELSE d[x]]

Load(table, tm, st, fx, chips) ==
    /\ players = table
    /\ team = tm
    /\ stats = st
    /\ fixtures = fx
    /\ chips_used = chips

SnapshotRest ==
    /\ picks = DOMAIN players
    /\ gameweek \in CurrentGameweeks
    /\ pc = "idle"
    /\ result = NoResult
    /\ prev_result = NoResult
    /\ wildcard_result = NoWildcard
    /\ advice = NoAdvice

AdvisorRest == SnapshotRest /\ available = AvailableList

\* a second squad member with three plain rows
SteadyRows == [g \in Gameweeks |-> IF g >= 4 THEN StatsRow(4, 3) ELSE NoRow]

PairTable == (1 :> AdvisorRow(3, 1, 6)) @@ (2 :> AdvisorRow(2, 2, 4))

PairTeam == <<AdvisorDict(1, PairTable[1]), AdvisorDict(2, PairTable[2])>>

PairFixtures == {Fixture(6, 1, 2, 2, 4), Fixture(3, 2, 1, 3, 3)}

\* point histories of player 1: gameweeks 2..5 hold any of five totals or no
\* row, gameweek 1 an old row, gameweek 6 the row of the current gameweek
FormPointValues == {2, 4, 6, 8, 10}
FormRows == {NoRow} \cup {StatsRow(6, p) : p \in FormPointValues}
OldestRows == {NoRow, StatsRow(6, 14), NullPointsRow(6)}
CurrentRows == {StatsRow(6, p) : p \in {0, 2, 10, 16}}

FormInit ==
    \E r1 \in OldestRows, r6 \in CurrentRows, mid \in [2..5 -> FormRows] :
        Load(PairTable, PairTeam,
             (1 :> [g \in Gameweeks |-> IF g = 1 THEN r1 ELSE IF g = 6 THEN r6 ELSE mid[g]])
                 @@ (2 :> SteadyRows),
             PairFixtures, NoChipsUsed)

\* past meetings of club 1 with club 2 in gameweeks 1..3, and the upcoming
\* fixture of club 1: none, at home, away, or two in the gameweek
HistoryRows == {NoRow, StatsRow(6, 2), StatsRow(6, 6), StatsRow(6, 8)}
Meetings == {"none", "home", "away"}

PastFixtures(m) ==
    {Fixture(g, 1, 2, 3, 3) : g \in {h \in DOMAIN m : m[h] = "home"}}
        \cup {Fixture(g, 2, 1, 3, 3) : g \in {h \in DOMAIN m : m[h] = "away"}}

UpcomingFixtures ==
    {{}, {Fixture(6, 1, 2, 2, 4)}, {Fixture(6, 2, 1, 4, 2)},
     {Fixture(6, 1, 2, 2, 4), Fixture(6, 3, 1, 5, 1)}}

HistoryInit ==
    \E first \in HistoryRows \cup {NullPointsRow(6)}, past \in [2..3 -> HistoryRows],
       m \in [1..3 -> Meetings], up \in UpcomingFixtures :
        Load(PairTable, PairTeam,
             (1 :> [g \in Gameweeks |-> IF g = 1 THEN first
                                         ELSE IF g <= 3 THEN past[g]
                                         ELSE IF g = 6 THEN StatsRow(6, 0) ELSE NoRow])
                 @@ (2 :> SteadyRows),
             PastFixtures(m) \cup up, NoChipsUsed)

\* data gaps of player 1: no row in the players table, no or an empty row for
\* the current gameweek, no fixture, a null point total; player 2 is complete
GapTables == {PairTable, (2 :> AdvisorRow(2, 2, 4))}
GapRows == {NoRow, NullExpectedRow(0), StatsRow(6, 0)}
GapFixtures == {{Fixture(6, 2, 3, 3, 3)},
                {Fixture(6, 2, 3, 3, 3), Fixture(6, 1, 4, 2, 4), Fixture(5, 4, 1, 3, 3)}}

GapInit ==
    \E table \in GapTables, r6 \in GapRows, r5 \in {StatsRow(6, 8), NullPointsRow(6)},
       fx \in GapFixtures :
        Load(table, PairTeam,
             (1 :> [g \in Gameweeks |-> IF g = 6 THEN r6
                                         ELSE IF g = 5 THEN r5
                                         ELSE IF g >= 3 THEN StatsRow(6, 8) ELSE NoRow])
                 @@ (2 :> SteadyRows),
             fx, NoChipsUsed)

\* six squad members of three clubs with the same point history; their
\* expected points vary, and so does the order of the list
RankExpected == {0, 5, 9}

RankTable(e) ==
    [i \in 1..6 |->
        AdvisorRow(CASE i = 1 -> 1 [] i = 2 -> 2 [] i = 3 -> 3
                     [] i = 4 -> 4 [] i = 5 -> 3 [] OTHER -> 4,
                   CASE i \in {1, 4} -> 1 [] i \in {2, 3, 5} -> 2 [] OTHER -> 3,
                   e[i])]

RankStats(e, last) ==
    [i \in 1..6 |->
        [g \in Gameweeks |->
            IF g = 6 THEN (IF i = 6 THEN last ELSE StatsRow(e[i], 0))
            ELSE IF g >= 3 THEN StatsRow(e[i], 2 * (g - 2)) ELSE NoRow]]

RankFixtures == {Fixture(6, 1, 2, 2, 4), Fixture(4, 2, 1, 3, 3)}

RankTeam(e) == [i \in 1..6 |-> AdvisorDict(i, RankTable(e)[i])]

RankInit ==
    \E e \in [1..6 -> RankExpected], last \in {NoRow, StatsRow(5, 0), StatsRow(9, 0)},
       rev \in BOOLEAN :
        Load(RankTable(e), IF rev THEN Reversed(RankTeam(e)) ELSE RankTeam(e),
             RankStats(e, last), RankFixtures, NoChipsUsed)

CaptainInit ==
    /\ RankInit \/ GapInit \/ HistoryInit \/ FormInit
    /\ AdvisorRest

\* suggest_captain on the snapshots of the Scoring Engine
CaptainSpec == CaptainInit /\ [][SuggestCaptain]_vars

\* three squad members whose dicts carry, or lack, a status and a price_change
Statuses == {"a", "i", "s", "d"}
PriceChanges == {-3, -2}

StatusDicts(d) ==
    LET withStatus == {d} \cup {WithKey(d, "status", s) : s \in Statuses}
    IN withStatus \cup {WithKey(x, "price_change", c) : x \in withStatus, c \in PriceChanges}

PriorityTable == [i \in 1..3 |-> RankTable([j \in 1..6 |-> 5])[i]]

PriorityInit ==
    /\ \E d1 \in StatusDicts(AdvisorDict(1, PriorityTable[1])),
          d2 \in StatusDicts(AdvisorDict(2, PriorityTable[2])),
          d3 \in StatusDicts(AdvisorDict(3, PriorityTable[3])) :
            Load(PriorityTable, <<d1, d2, d3>>,
                 [i \in 1..3 |-> RankStats([j \in 1..6 |-> 5], NoRow)[i]],
                 RankFixtures, NoChipsUsed)
    /\ AdvisorRest

\* _identify_priority_transfers on squads of three
PrioritySpec == PriorityInit /\ [][IdentifyPriorityTransfers]_vars

\* pools for the value classification: two athletes whose signals vary, ten
\* more that are absent, all strong, or alternately strong and moderate; the
\* squad holds the first pool athlete or an athlete outside the pool
PoolDict(i, club, exp, cost) ==
    [id |-> i, position |-> "MID", price |-> cost, expected_points |-> exp, team_id |-> club]

\* the dict with the key k when there is a value for it
Optional(d, k, vs) == IF vs = {} THEN d ELSE WithKey(d, k, CHOOSE v \in vs : TRUE)

ValueFixtures ==
    {{Fixture(6, 1, 5, 1, 4), Fixture(7, 5, 1, 4, 2), Fixture(6, 2, 5, 5, 1),
      Fixture(8, 5, 2, 1, 5), Fixture(12, 3, 5, 1, 5), Fixture(5, 5, 3, 5, 1)},
     {Fixture(6, 1, 5, 3, 3), Fixture(6, 2, 5, 4, 2), Fixture(11, 3, 5, 1, 5)}}

PoolClubs == {1, 2, 3}
PoolRising == {{}, {1}, {2}}
PoolForms == {{}, {6}, {7}}
PoolExpected == {7, 8}
PoolRests == {"none", "strong", "mixed"}

ValueRest(kind) ==
    IF kind = "none" THEN <<>>
    ELSE List([k \in 1..10 |->
                 IF kind = "strong" \/ k % 2 = 1
                 THEN PoolDict(k + 2, 1, 8, 5)
                 ELSE Optional(PoolDict(k + 2, 2, 7, 5), "form", {k})])

SquadOf(i) == <<PoolDict(i, 1, 5, 5)>>

ValueInit ==
    \E c1 \in PoolClubs, e1 \in PoolExpected, r1 \in PoolRising, f1 \in PoolForms,
       c2 \in PoolClubs, e2 \in PoolExpected, r2 \in {{}, {2}},
       rest \in PoolRests, member \in {1, 20}, fx \in ValueFixtures :
        /\ Load(PairTable, SquadOf(member), (1 :> SteadyRows) @@ (2 :> SteadyRows),
                fx, NoChipsUsed)
        /\ available =
              <<Optional(Optional(PoolDict(1, c1, e1, 5), "price_change", r1), "form", f1),
                Optional(PoolDict(2, c2, e2, 5), "price_change", r2)>> \o ValueRest(rest)

\* pools for the long-term classification: prices 0, 5 and 6, expected points
\* 8 and 9, with or without the penalties key
PoolPrices == {0, 5, 6}
PoolHighExpected == {8, 9}
PoolPenalties == {{}, {TRUE}, {FALSE}}

LongtermRest(kind) ==
    IF kind = "none" THEN <<>>
    ELSE List([k \in 1..6 |->
                 IF kind = "strong" \/ k % 2 = 1
                 THEN PoolDict(k + 3, 1, 9, 5)
                 ELSE Optional(PoolDict(k + 3, 2, 9, 6), "penalties", {TRUE})])

LongtermInit ==
    \E e1 \in PoolHighExpected, p1 \in PoolPrices, t1 \in PoolPenalties,
       e2 \in PoolHighExpected, p2 \in PoolPrices, t2 \in PoolPenalties,
       e3 \in PoolHighExpected, t3 \in {{}, {TRUE}},
       rest \in PoolRests, member \in {1, 20} :
        /\ Load(PairTable, SquadOf(member), (1 :> SteadyRows) @@ (2 :> SteadyRows),
                PairFixtures, NoChipsUsed)
        /\ available =
              <<Optional(PoolDict(1, 1, e1, p1), "penalties", t1),
                Optional(PoolDict(2, 1, e2, p2), "penalties", t2),
                Optional(PoolDict(3, 1, e3, 5), "penalties", t3)>> \o LongtermRest(rest)

TransferInit == (ValueInit \/ LongtermInit) /\ SnapshotRest

\* the two classifications of the pool
TransferSpec ==
    TransferInit /\ [][IdentifyValueTransfers \/ IdentifyLongtermTransfers]_vars

\* chip states: each chip marked used, marked unused, or absent
ChipStates == UNION {[S -> BOOLEAN] : S \in SUBSET ChipNames}

PairStats == (1 :> SteadyRows) @@ (2 :> SteadyRows)

\* squads for the gating of the analyses: a pair, the pair at price 0, nobody
FlagSquads == {PairTeam,
               <<PoolDict(1, 1, 6, 0), PoolDict(2, 2, 4, 0)>>,
               <<>>}

FlagsInit ==
    \E used \in ChipStates, squad \in FlagSquads :
        Load(PairTable, squad, PairStats, PairFixtures, used)

\* eight squad members of club 1 or club 3; club 3, both clubs or neither
\* club without a fixture in the gameweek
BlankSquad == 1..8
BlankFixtures == {{Fixture(6, 1, 2, 3, 3)},
                  {Fixture(6, 1, 2, 3, 3), Fixture(6, 3, 4, 3, 3)},
                  {Fixture(7, 1, 3, 3, 3)}}

FreeHitInit ==
    \E club \in [BlankSquad -> {1, 3}], fx \in BlankFixtures :
        Load(PairTable, List([i \in BlankSquad |-> PoolDict(i, club[i], 5, 5)]),
             PairStats, fx, ("triple_captain" :> TRUE))

\* three squad members with or without the is_bench key and 4, 6 or 8
\* expected points, a fourth off the bench; no double gameweek, one for
\* club 1, one for clubs 1 and 3
BenchMarks == {{}, {TRUE}, {FALSE}}
BenchExpected == {4, 6, 8}
BenchFixtures == {{Fixture(6, 1, 2, 3, 3), Fixture(6, 3, 4, 3, 3)},
                  {Fixture(6, 1, 2, 3, 3), Fixture(6, 3, 4, 3, 3), Fixture(6, 5, 1, 3, 3)},
                  {Fixture(6, 1, 2, 3, 3), Fixture(6, 3, 4, 3, 3), Fixture(6, 3, 1, 1, 1)}}

BenchInit ==
    \E b \in [1..3 -> BenchMarks], e \in [1..3 -> BenchExpected], fx \in BenchFixtures :
        Load(PairTable,
             <<Optional(PoolDict(1, 1, e[1], 5), "is_bench", b[1]),
               Optional(PoolDict(2, 1, e[2], 5), "is_bench", b[2]),
               Optional(PoolDict(3, 3, e[3], 5), "is_bench", b[3]),
               PoolDict(4, 2, 5, 5)>>,
             PairStats, fx, ("triple_captain" :> TRUE))

\* three squad members with or without a status, at budget-efficiency 1, 0.8
\* or 0.4, with and without a run of difficult fixtures for club 1
WildcardStatuses == {{}, {"a"}, {"i"}, {"s"}, {"d"}}
WildcardExpected == {1, 2, 3}
WildcardFixtures == {{Fixture(6, 1, 2, 2, 4)},
                     {Fixture(6, 1, 2, 4, 2), Fixture(8, 3, 1, 1, 5), Fixture(11, 1, 3, 5, 1)}}

WildcardInit ==
    \E st \in [1..3 -> WildcardStatuses], e \in WildcardExpected, fx \in WildcardFixtures :
        Load(PairTable,
             List([i \in 1..3 |-> Optional(PoolDict(i, IF i = 1 THEN 1 ELSE 4, e, 5),
                                           "status", st[i])]),
             PairStats, fx, ("triple_captain" :> TRUE))

\* the pair with 3, 5, 7, 8 or 9 expected points for the first and 2 or 4 for
\* the second; club 1 without a fixture, with one, with two
CaptainExpected == {3, 5, 7, 8, 9}
TripleFixtures == {{Fixture(6, 3, 2, 3, 3)},
                   {Fixture(6, 1, 3, 3, 3)},
                   {Fixture(6, 1, 3, 3, 3), Fixture(6, 4, 1, 3, 3)}}

TripleInit ==
    \E e1 \in CaptainExpected, e2 \in {2, 4}, fx \in TripleFixtures :
        Load(PairTable, PairTeam,
             (1 :> [g \in Gameweeks |-> IF g >= 4 THEN StatsRow(e1, 3) ELSE NoRow])
                 @@ (2 :> [g \in Gameweeks |-> IF g >= 4 THEN StatsRow(e2, 3) ELSE NoRow]),
             fx, NoChipsUsed)

ChipInit ==
    /\ FlagsInit \/ FreeHitInit \/ BenchInit \/ WildcardInit \/ TripleInit
    /\ AdvisorRest

\* analyze_chip_usage on every chip state and on the squads above
ChipSpec == ChipInit /\ [][AnalyzeChipUsage]_vars

\* every operation of the engine on a few of the optimizer's snapshots
ChipsUsed == {NoChipsUsed, ("triple_captain" :> TRUE), ("triple_captain" :> FALSE)}

EngineInit ==
    /\ players \in {PlayerTable(pid, club, 5, 8, st15, "a") :
                      pid \in ExtraPositionIds, club \in ExtraClubs, st15 \in {"a", "i"}}
    /\ picks \in {BaseIds, BaseIds \cup {SquadSize + 1}}
    /\ pc = "idle"
    /\ result = NoResult
    /\ prev_result = NoResult
    /\ wildcard_result = NoWildcard
    /\ team = CurrentTeamList
    /\ gameweek \in CurrentGameweeks
    /\ stats = DefaultStats
    /\ fixtures = DefaultFixtures
    /\ chips_used \in ChipsUsed
    /\ advice = NoAdvice
    /\ available = AvailableList

EngineNext ==
    \/ OptimizeTransfers
    \/ OptimizeTransfersAgain
    \/ OptimizeWildcard
    \/ run_enhanced_optimizer
    \/ SuggestCaptain
    \/ IdentifyPriorityTransfers
    \/ AnalyzeTripleCaptain
    \/ AnalyzeChipUsage
    \/ IdentifyValueTransfers
    \/ IdentifyLongtermTransfers
    \/ GetTransferRecommendations

EngineSpec == EngineInit /\ [][EngineNext]_vars

(***************************************************************************)
(* Properties.  The definitions below restate the specification's terms    *)
(* on the returned plans, independently of the constraint definitions      *)
(* above.                                                                  *)
(***************************************************************************)
Returned == {r \in {result, prev_result} : r.status = "ok"}

CountPosition(S, pos) == Cardinality({p \in S : PlayerDict(p).position = pos})

CountClub(S, t) == Cardinality({p \in S : PlayerDict(p).team_id = t})

SquadShape(S) ==
    /\ Cardinality(S) = 15
    /\ CountPosition(S, "GK") = 2
    /\ CountPosition(S, "DEF") = 5
    /\ CountPosition(S, "MID") = 5
    /\ CountPosition(S, "FWD") = 3
    /\ \A p \in S : CountClub(S, PlayerDict(p).team_id) <= 3

PlanPenalty(r) ==
    Max0(Cardinality(r.transfers_in) - r.call.free_transfers) * r.call.transfer_cost

PlanNetSpend(r) == lpSum(price, r.transfers_in) - lpSum(price, r.transfers_out)

PlanPoints(r) == lpSum(expected_points, r.selected_team) * r.call.gameweeks_ahead

\* C1: every returned plan has a squad of exactly 15 with 2 GK, 5 DEF, 5 MID,
\* 3 FWD, at most 3 players of any club, and as many transfers in as out.
C1_PlanShape ==
    \A r \in Returned :
        /\ SquadShape(r.selected_team)
        /\ Cardinality(r.transfers_in) = Cardinality(r.transfers_out)

\* C1 witness: a plan with two transfers whose squad holds three players of a club
\* that a further pool player belongs to.
C1_Witness ==
    /\ result.status = "ok"
    /\ Cardinality(result.transfers_in) = 2
    /\ \E q \in get_available_players \ result.selected_team :
          CountClub(result.selected_team, PlayerDict(q).team_id) = 3

\* C2: the prices of the 15 players of the returned squad sum to at most the
\* budget argument.
C2_SquadPriceWithinBudget ==
    \A r \in Returned : lpSum(price, r.selected_team) <= r.call.budget

\* C3: purchases minus sales plus the penalty max(0, transfers - free) * cost
\* does not exceed the budget; the penalty in the budget constraint is never
\* negative.
C3_BudgetWithNonNegativePenalty ==
    \A r \in Returned : PlanNetSpend(r) + PlanPenalty(r) <= r.call.budget

(***************************************************************************)
(* The optimisation problem as the specification states it (4.1,           *)
(* constraints (1)-(7) and the objective with penalty max(0, .)).          *)
(***************************************************************************)
SpecPenalty(a, c) == Max0(Cardinality(a.tin) - c.free_transfers) * c.transfer_cost

SpecObjective(a, c) ==
    lpSum(expected_points, a.sel) * c.gameweeks_ahead - SpecPenalty(a, c)

SpecConstraints(a, ct, ap, c) ==
    /\ \A p \in ct : ((p \in a.sel) <=> (p \notin a.tout)) /\ p \notin a.tin
    /\ \A p \in ap \ ct : (p \in a.sel) <=> (p \in a.tin)
    /\ Cardinality(a.tin) = Cardinality(a.tout)
    /\ lpSum(price, a.tin) - lpSum(price, a.tout) + SpecPenalty(a, c) <= c.budget
    /\ SquadShape(a.sel)

PlanAssignment(r) ==
    [sel |-> r.selected_team, tin |-> r.transfers_in, tout |-> r.transfers_out]

\* C4: no assignment satisfying constraints (1)-(7) has a strictly larger value of
\* sum(points * gameweeksAhead) - max(0, transfers - free) * cost than the
\* returned plan.
C4_MaximizesSpecObjective ==
    \A r \in Returned :
        \A b \in TransferAssignments(get_current_team, get_available_players) :
            SpecConstraints(b, get_current_team, get_available_players, r.call)
                => SpecObjective(b, r.call) <= SpecObjective(PlanAssignment(r), r.call)

(***************************************************************************)
(* Scenario 1.                                                             *)
(***************************************************************************)
SwapKeepsClubQuota(x, m, ct) ==
    LET S == (ct \ {m}) \cup {x}
    IN \A p \in S : CountClub(S, PlayerDict(p).team_id) <= 3

\* x improves on squad member m of the same position, within budget and club quota
Improves(x, m, ct, budget) ==
    /\ PlayerDict(x).position = PlayerDict(m).position
    /\ expected_points[x] > expected_points[m]
    /\ price[x] - price[m] <= budget
    /\ lpSum(price, ct) - price[m] + price[x] <= budget
    /\ SwapKeepsClubQuota(x, m, ct)

Scenario1(r) ==
    LET ct == get_current_team
        ap == get_available_players
    IN /\ SquadShape(ct)
       /\ ct \subseteq ap
       /\ lpSum(price, ct) <= r.call.budget
       /\ r.call.free_transfers = 1
       /\ r.call.gameweeks_ahead = 1
       /\ Cardinality({x \in ap \ ct :
                         \E m \in ct : Improves(x, m, ct, r.call.budget)}) = 1

\* C5: in scenario 1 (valid squad within the pool, one free transfer, one
\* gameweek ahead, exactly one improving replacement) the call returns a plan
\* with exactly one transfer in and one out and strictly more expected points
\* than the current squad.
C5_ScenarioOneTransfer ==
    \A r \in {result, prev_result} :
        (r.status # "none" /\ Scenario1(r)) =>
            /\ r.status = "ok"
            /\ Cardinality(r.transfers_in) = 1
            /\ Cardinality(r.transfers_out) = 1
            /\ lpSum(expected_points, r.selected_team)
                 > lpSum(expected_points, get_current_team)

\* C6: every current-squad player is selected iff not transferred out and is
\* never transferred in; every other pool player is selected iff transferred in;
\* hence selected_team = (current squad minus transfers_out) union transfers_in.
C6_SelectionLinksTransfers ==
    \A r \in Returned :
        /\ \A p \in get_current_team :
              /\ (p \in r.selected_team) <=> (p \notin r.transfers_out)
              /\ p \notin r.transfers_in
        /\ \A p \in get_available_players \ get_current_team :
              (p \in r.selected_team) <=> (p \in r.transfers_in)
        /\ r.selected_team = (get_current_team \ r.transfers_out) \cup r.transfers_in

Called == {r \in {result, prev_result} : r.status # "none"}

\* C7: a call for which no assignment satisfies the constraints of the problem
\* raises and returns no plan; a plan is returned only for an optimal solution:
\* it satisfies every constraint and no feasible assignment has a larger value.
C7_RaisesUnlessOptimal ==
    \A r \in Called :
        LET F == TransferFeasible(get_current_team, get_available_players, r.call)
        IN /\ F = {} => r.status = "raised"
           /\ r.status = "raised" =>
                 /\ r.selected_team = {}
                 /\ r.transfers_in = {}
                 /\ r.transfers_out = {}
           /\ r.status = "ok" =>
                 /\ PlanAssignment(r) \in F
                 /\ \A b \in F : TotalValue(b, r.call) <= TotalValue(PlanAssignment(r), r.call)

\* C7 witness: a call on an input without any feasible assignment has raised.
C7_Witness ==
    /\ result.status = "raised"
    /\ TransferFeasible(get_current_team, get_available_players, result.call) = {}

(***************************************************************************)
(* Wildcard.                                                               *)
(***************************************************************************)
ValidSquad(S, budget) == SquadShape(S) /\ lpSum(price, S) <= budget

ValidSquads(ap, budget) == {S \in Selections(ap) : ValidSquad(S, budget)}

\* C8: when the pool holds a valid squad within the budget, optimize_wildcard
\* returns a valid squad within the budget whose total expected points are
\* maximal among all of them.
C8_WildcardOptimal ==
    (wildcard_result.status = "returned"
        /\ ValidSquads(get_available_players, wildcard_result.budget) # {}) =>
        /\ wildcard_result.team \subseteq get_available_players
        /\ ValidSquad(wildcard_result.team, wildcard_result.budget)
        /\ \A S \in ValidSquads(get_available_players, wildcard_result.budget) :
              lpSum(expected_points, S) <= lpSum(expected_points, wildcard_result.team)

\* C8 witness: a wildcard squad was returned while the budget excluded a squad
\* of the right shape with more expected points.
C8_Witness ==
    /\ wildcard_result.status = "returned"
    /\ ValidSquads(get_available_players, wildcard_result.budget) # {}
    /\ \E S \in Selections(get_available_players) :
          /\ SquadShape(S)
          /\ lpSum(price, S) > wildcard_result.budget
          /\ lpSum(expected_points, S) > lpSum(expected_points, wildcard_result.team)

\* C9: optimize_wildcard never returns a list that is not a valid 15-player
\* squad within the budget; without such a squad it fails explicitly.
C9_WildcardNeverPartial ==
    wildcard_result.status = "returned" =>
        ValidSquad(wildcard_result.team, wildcard_result.budget)

PlanValue(r) ==
    PlanPoints(r)
        - (Cardinality(r.transfers_in) - r.call.free_transfers) * r.call.transfer_cost

C11_InputsUnchanged ==
    [][/\ team' = team
       /\ players' = players
       /\ picks' = picks
       /\ chips_used' = chips_used
       /\ stats' = stats
       /\ fixtures' = fixtures
       /\ available' = available]_vars

\* C11 witness: the triple-captain analysis has appended its own reason to
\* the reasons of the captain entry, and the squad list is as it was built.
C11_Witness ==
    /\ advice.op = "analyze_triple_captain"
    /\ advice.value.status = "ok"
    /\ advice.value.reasons # <<>>
    /\ advice.value.reasons[Len(advice.value.reasons)] = "Player has double gameweek"
    /\ team = CurrentTeamList

(***************************************************************************)
(* The suggestion suggest_captain returned, and what the Scoring Engine    *)
(* read for each of its entries.                                           *)
(***************************************************************************)
Suggested == advice.op = "suggest_captain" /\ advice.value.status = "ok"

SuggestionEntries ==
    {advice.value.captain, advice.value.vice_captain}
        \cup {advice.value.alternatives[i] : i \in 1..Len(advice.value.alternatives)}

HasStatsRow(p) == p.id \in DOMAIN stats /\ stats[p.id][gameweek].present

BaseScore(p) ==
    IF stats[p.id][gameweek].expected_null THEN 0 ELSE stats[p.id][gameweek].expected_points

PointHistory(p) ==
    [g \in Gameweeks |-> [present |-> stats[p.id][g].present,
                          points |-> stats[p.id][g].points,
                          points_null |-> stats[p.id][g].points_null]]

\* two squad members of the same club with the same point history get the
\* same fixture, form, home and history factors
SameFactors(p, q) ==
    /\ HasStatsRow(p) /\ HasStatsRow(q)
    /\ p.id \in DOMAIN players /\ q.id \in DOMAIN players
    /\ p.team_id = q.team_id
    /\ players[p.id].team_id = players[q.id].team_id
    /\ PointHistory(p) = PointHistory(q)

\* C12: for a fixed position and fixed fixture, form, home and history
\* factors, more expected points never give a lower captain score; the
\* factor multiplying the expected points is never negative, so no score is.
C12_ScoreMonotone ==
    Suggested =>
        /\ \A a \in SuggestionEntries : a.score >= 0
        /\ \A a, b \in SuggestionEntries :
              (/\ SameFactors(a.player, b.player)
               /\ a.player.position = b.player.position
               /\ BaseScore(a.player) <= BaseScore(b.player))
                  => a.score <= b.score

\* C12 witness: two entries with the same position and factors, the one
\* with more expected points scoring strictly higher.
C12_Witness ==
    /\ Suggested
    /\ \E a, b \in SuggestionEntries :
          /\ SameFactors(a.player, b.player)
          /\ a.player.position = b.player.position
          /\ BaseScore(a.player) < BaseScore(b.player)
          /\ a.score < b.score

\* C13: the position multiplier is a fixed number per position, and for the
\* same positive expected points and the same other factors a forward or a
\* midfielder scores strictly higher than a defender or a goalkeeper.
C13_AttackersScoreHigher ==
    Suggested =>
        \A a, b \in SuggestionEntries :
            (/\ SameFactors(a.player, b.player)
             /\ BaseScore(a.player) = BaseScore(b.player)
             /\ BaseScore(a.player) > 0
             /\ a.player.position \in {"FWD", "MID"}
             /\ b.player.position \in {"DEF", "GK"})
                => a.score > b.score

\* the squad members whose factors suggest_captain computed
Scored == {i \in 1..Len(team) : HasStatsRow(team[i])}

\* C14: fixtureBonus lies in [0, 0.3], formTrend in [-0.2, 0.2], historyBonus
\* in [0, 0.15] (also when the base, consistency and recency sub-bonuses all
\* apply) and homeBonus is 0 or 0.1, whatever the fixtures and histories.
C14_FactorRanges ==
    Suggested =>
        \A i \in Scored, pref \in FirstRows :
            /\ get_fixture_score(team[i].team_id, gameweek, pref) \in 0..30
            /\ FracLeq(Frac(-2, 10), get_form_trend(team[i].id))
            /\ FracLeq(get_form_trend(team[i].id), Frac(2, 10))
            /\ get_historical_performance(team[i].id, gameweek, pref) \in 0..15
            /\ get_home_advantage(team[i].team_id, gameweek) \in {0, 10}

\* C14 witness: three past home meetings with 8 points each before another
\* home meeting: the base (0.15), consistency (0.02) and recency (0.03)
\* sub-bonuses all apply and the history bonus is 0.15.
C14_Witness ==
    /\ Suggested
    /\ \E i \in Scored :
          /\ calculate_historical_bonus(
                 get_performances_vs_opponent(team[i].id, 2, gameweek), TRUE) = 20
          /\ \A pref \in FirstRows :
                get_historical_performance(team[i].id, gameweek, pref) = 15

RowCount(p) == Cardinality({g \in Gameweeks : stats[p.id][g].present})

Upcoming(club) ==
    {f \in fixtures : f.gameweek = gameweek /\ club \in {f.home_team_id, f.away_team_id}}

\* a past fixture between the two clubs for which the player has a row
QualifyingPast(p, club, opponent) ==
    {f \in fixtures :
        /\ f.gameweek < gameweek
        /\ {f.home_team_id, f.away_team_id} = {club, opponent}
        /\ stats[p.id][f.gameweek].present}

Opponents(club) ==
    {IF f.home_team_id = club THEN f.away_team_id ELSE f.home_team_id : f \in Upcoming(club)}

\* C15: formTrend is 0 with fewer than 3 gameweek totals; historyBonus is 0
\* with no qualifying past fixture against the upcoming opponent or with no
\* upcoming fixture; fixtureBonus is 0 when the club has no fixture.
C15_NeutralWithoutData ==
    Suggested =>
        \A i \in Scored, pref \in FirstRows :
            LET p == team[i] IN
            /\ RowCount(p) < 3 => get_form_trend(p.id) = Frac(0, 1)
            /\ Upcoming(p.team_id) = {} =>
                  /\ get_fixture_score(p.team_id, gameweek, pref) = 0
                  /\ get_historical_performance(p.id, gameweek, pref) = 0
            /\ (\A o \in Opponents(p.team_id) : QualifyingPast(p, p.team_id, o) = {})
                  => get_historical_performance(p.id, gameweek, pref) = 0

\* C15 witness: a scored squad member with two rows whose club has no fixture
\* in the gameweek, so that all three factors are neutral at once.
C15_Witness ==
    /\ Suggested
    /\ \E i \in Scored :
          /\ RowCount(team[i]) = 2
          /\ Upcoming(team[i].team_id) = {}
          /\ \E f \in fixtures : team[i].team_id \in {f.home_team_id, f.away_team_id}

\* the difficulty rating of fixture f seen by the club (lower = easier)
DifficultySeen(club, f) ==
    IF f.home_team_id = club THEN f.difficulty_home ELSE f.difficulty_away

\* C16: fixtureBonus follows the difficulty rating of the athlete's fixture in
\* the gameweek: of two squad members with one fixture each, the one whose club
\* sees the lower (easier) rating has the strictly greater fixtureBonus.
C16_EasierFixtureScoresHigher ==
    Suggested =>
        \A i, j \in Scored, pref \in FirstRows :
            \A f \in Upcoming(team[i].team_id), g \in Upcoming(team[j].team_id) :
                (/\ Upcoming(team[i].team_id) = {f}
                 /\ Upcoming(team[j].team_id) = {g}
                 /\ DifficultySeen(team[i].team_id, f) < DifficultySeen(team[j].team_id, g))
                    => get_fixture_score(team[i].team_id, gameweek, pref)
                           > get_fixture_score(team[j].team_id, gameweek, pref)

\* the player's most recent gameweek rows, at most five, oldest first
RecentTotals(p) ==
    LET gws == Ascending({g \in Gameweeks : stats[p.id][g].present})
        n == Len(gws)
        from == IF n > 5 THEN n - 4 ELSE 1
    IN List([i \in 1..(n - from + 1) |-> stats[p.id][gws[from + i - 1]]])

StrictlyIncreasing(s) == \A i \in 1..(Len(s) - 1) : s[i] < s[i + 1]
StrictlyDecreasing(s) == \A i \in 1..(Len(s) - 1) : s[i] > s[i + 1]
Positive(x) == ~FracLeq(x, Frac(0, 1))
Negative(x) == ~FracLeq(Frac(0, 1), x)

\* C17: formTrend is strictly positive for every strictly increasing sequence
\* of the most recent 3 to 5 gameweek totals and strictly negative for every
\* strictly decreasing one, and it stays within [-0.2, 0.2].
C17_TrendSign ==
    Suggested =>
        \A i \in Scored :
            LET rows == RecentTotals(team[i])
                totals == List([k \in 1..Len(rows) |-> rows[k].points])
                trend == get_form_trend(team[i].id)
            IN (Len(rows) \in 3..5 /\ \A k \in 1..Len(rows) : ~rows[k].points_null) =>
                  /\ StrictlyIncreasing(totals) => Positive(trend)
                  /\ StrictlyDecreasing(totals) => Negative(trend)
                  /\ FracLeq(Frac(-2, 10), trend) /\ FracLeq(trend, Frac(2, 10))

\* C17 witness: the totals 2, 4, 6, 8, 10 give slope 2 and 0.05 * (0.7 * 2 +
\* 0.3 * (48 / 7.2 - 6)) = 0.08.
C17_Witness ==
    /\ Suggested
    /\ \E i \in Scored :
          /\ RecentTotals(team[i]) = List([k \in 1..5 |-> StatsRow(6, 2 * k)])
          /\ get_form_trend(team[i].id) = Frac(8, 100)

\* captain, vice-captain and alternates in the order of the result
Ranking == <<advice.value.captain, advice.value.vice_captain>> \o advice.value.alternatives

\* C18: on a squad of at least 5, captain, vice-captain and 3 alternates are 5
\* distinct squad members in descending order of score, and no squad member
\* outside the five scored strictly more than any of them.
C18_TopFiveByScore ==
    (Suggested /\ Len(team) >= 5) =>
        /\ Len(Ranking) = 5
        /\ \A a \in 1..5 : \E i \in 1..Len(team) : team[i] = Ranking[a].player
        /\ \A a, b \in 1..5 : a # b => Ranking[a].player.id # Ranking[b].player.id
        /\ \A a, b \in 1..5 : a < b => Ranking[a].score >= Ranking[b].score
        /\ \A pref \in FirstRows : \A ups \in SUBSET HalfwayEntries(team, gameweek, pref) :
              suggest_captain(team, gameweek, pref, ups) = advice.value =>
                  LET scores == captain_scores(team, gameweek, pref, ups)
                  IN \A i \in 1..Len(team) :
                        (\A a \in 1..5 : Ranking[a].player # team[i])
                            => \A a \in 1..5 : scores[i].score <= Ranking[a].score

\* C18 witness: a squad of six whose best member is not the first of the
\* squad and whose sixth-ranked member scored less than the last alternate.
C18_Witness ==
    /\ Suggested
    /\ Len(team) = 6
    /\ advice.value.captain.player # team[1]
    /\ advice.value.captain.score > advice.value.vice_captain.score
    /\ \E i \in 1..6 :
          /\ \A a \in 1..5 : Ranking[a].player # team[i]
          /\ HasStatsRow(team[i])
          /\ BaseScore(team[i]) > 0

\* a squad member without data gaps: expected points 4, the totals 3, 3, 3,
\* one home fixture in the gameweek and no earlier meeting with that opponent
Complete(p) ==
    /\ p = AdvisorDict(2, PairTable[2])
    /\ p.id \in DOMAIN players /\ players[p.id] = PairTable[2]
    /\ stats[p.id] = SteadyRows
    /\ Upcoming(p.team_id) = {Fixture(6, 2, 3, 3, 3)}
    /\ QualifyingPast(p, 2, 3) = {}

NullHistory(p) ==
    LET rows == RecentTotals(p) IN \E k \in 1..Len(rows) : rows[k].points_null

\* C19: a data gap of one squad member (no row for the gameweek, no expected
\* points, no fixture, a null point total, a club the players table does not
\* know) gives that member score 0 or a neutral factor, suggest_captain still
\* returns the ranking of the whole squad, and a member without gaps keeps its
\* score, 4 * (1 + 0.18 + 0.1) = 5.12.
C19_GapsDegradeLocally ==
    advice.op = "suggest_captain" =>
        /\ advice.value.status = "ok"
        /\ Len(team) <= 5 => \A i \in 1..Len(team) :
                                \E a \in 1..Len(Ranking) : Ranking[a].player = team[i]
        /\ \A a \in 1..Len(Ranking) :
              LET p == Ranking[a].player IN
              /\ ~HasStatsRow(p) => Ranking[a].score = 0
              /\ (HasStatsRow(p) /\ stats[p.id][gameweek].expected_null)
                    => Ranking[a].score = 0
              /\ NullHistory(p) => get_form_trend(p.id) = Frac(0, 1)
              /\ \A pref \in FirstRows :
                    /\ Upcoming(p.team_id) = {} =>
                          /\ get_fixture_score(p.team_id, gameweek, pref) = 0
                          /\ get_home_advantage(p.team_id, gameweek) = 0
                          /\ get_historical_performance(p.id, gameweek, pref) = 0
                    /\ p.id \notin DOMAIN players =>
                          get_historical_performance(p.id, gameweek, pref) = 0
              /\ Complete(p) => Ranking[a].score = 512

\* C19 witness: a member unknown to the players table, without a row for the
\* gameweek and with a null point total, ranked behind a complete member.
C19_Witness ==
    /\ Suggested
    /\ Complete(advice.value.captain.player)
    /\ advice.value.captain.score = 512
    /\ LET p == advice.value.vice_captain.player
       IN /\ p.id \notin DOMAIN players
          /\ ~HasStatsRow(p)
          /\ NullHistory(p)
          /\ Upcoming(p.team_id) = {}
          /\ advice.value.vice_captain.score = 0

\* the urgency of a squad member: its availability flag and its price fall
Flag(p) == IF "status" \in DOMAIN p THEN p.status ELSE "a"

SignificantFall(p) == "price_change" \in DOMAIN p /\ p.price_change < -2

Urgency(p) ==
    (CASE Flag(p) = "i" -> 3 [] Flag(p) = "s" -> 3 [] Flag(p) = "d" -> 1 [] OTHER -> 0)
        + (IF SignificantFall(p) THEN 1 ELSE 0)

Classified == advice.op = "identify_priority_transfers"

\* C20: the priority list holds exactly the squad members with urgency > 0,
\* urgency being 3 for injured, 3 for suspended, 1 for doubtful, plus 1 for a
\* price change below -0.2; available members without such a fall are absent;
\* the list is in descending order of urgency.
C20_PriorityList ==
    Classified =>
        LET priority == advice.value IN
        /\ \A i \in 1..Len(team) :
              Urgency(team[i]) > 0 <=> \E k \in 1..Len(priority) : priority[k].player = team[i]
        /\ Len(priority) = Cardinality({i \in 1..Len(team) : Urgency(team[i]) > 0})
        /\ \A k \in 1..Len(priority) : priority[k].urgency = Urgency(priority[k].player)
        /\ \A k \in 1..(Len(priority) - 1) : priority[k].urgency >= priority[k + 1].urgency

\* C20 witness: the first squad member is available with a price change of
\* exactly -0.2 and is left out; the third, injured and falling, comes before
\* the second, doubtful.
C20_Witness ==
    /\ Classified
    /\ Flag(team[1]) = "a" /\ "price_change" \in DOMAIN team[1] /\ team[1].price_change = -2
    /\ Len(advice.value) = 2
    /\ advice.value[1].player = team[3] /\ advice.value[1].urgency = 4
    /\ advice.value[2].player = team[2] /\ advice.value[2].urgency = 1

(***************************************************************************)
(* Properties of the transfer classification.                              *)
(***************************************************************************)
SquadIds == {team[i].id : i \in 1..Len(team)}

\* the pool athletes outside the squad
Candidates == {i \in 1..Len(available) : available[i].id \notin SquadIds}

\* the signals of the value score other than the fixture run
PriceRising(p) == "price_change" \in DOMAIN p /\ p.price_change > 1

StrongForm(p) == "form" \in DOMAIN p /\ p.form > 6

ValueSignals(p) ==
    (IF PriceRising(p) THEN 2 ELSE 0) + (IF p.expected_points > 7 THEN 2 ELSE 0)
        + (IF StrongForm(p) THEN 1 ELSE 0)

ValueClassified == advice.op = "identify_value_transfers"

\* C21: every entry of the value list is a pool athlete outside the squad
\* whose score, the sum of +2 for a rising price, +3 or +1 for the fixture run,
\* +2 for expected points > 7 and +1 for form > 6, exceeds 2; the list has at
\* most 10 entries in descending order of score, and no candidate left out
\* qualifies with a score above that of an entry.
C21_ValueList ==
    ValueClassified =>
        LET value == advice.value IN
        /\ Len(value) <= 10
        /\ \A k \in 1..Len(value) :
              /\ \E i \in Candidates : available[i] = value[k].player
              /\ value[k].value_score - ValueSignals(value[k].player) \in {0, 1, 3}
              /\ value[k].value_score > 2
        /\ \A k, m \in 1..Len(value) : k # m => value[k].player.id # value[m].player.id
        /\ \A k \in 1..(Len(value) - 1) : value[k].value_score >= value[k + 1].value_score
        /\ \A i \in Candidates :
              LET score == value_entry(available[i], gameweek).value_score
              IN (score > 2 /\ \A k \in 1..Len(value) : value[k].player # available[i])
                    => /\ Len(value) = 10
                       /\ \A k \in 1..10 : value[k].value_score >= score

\* C21 witness: twelve candidates that all qualify; the second, with all
\* but the form signal, leads the list of ten, and the first, with score 3, is
\* left out behind entries of score 5.
C21_Witness ==
    /\ ValueClassified
    /\ Cardinality(Candidates) = 12
    /\ Len(advice.value) = 10
    /\ advice.value[1].player = available[2]
    /\ advice.value[1].value_score = 7
    /\ advice.value[10].value_score = 5
    /\ value_entry(available[1], gameweek).value_score = 3
    /\ \A k \in 1..10 : advice.value[k].player # available[1]

\* the long-term score of a pool athlete with a positive price
TakesPenalties(p) == "penalties" \in DOMAIN p /\ p.penalties

LongtermScore(p) ==
    (IF p.expected_points > 8 THEN 3 ELSE 0)
        + (IF 10 * p.expected_points > 15 * p.price THEN 2 ELSE 0)
        + (IF TakesPenalties(p) THEN 1 ELSE 0)

LongtermClassified ==
    advice.op = "identify_longterm_transfers" /\ advice.value.status = "ok"

\* C22: every entry of the long-term list is a pool athlete outside the squad
\* whose score, +3 for expected points > 8, +2 for expected points per price
\* > 1.5 and +1 for a penalty taker, exceeds 3; the list has at most 5 entries
\* in descending order of score, and no candidate left out qualifies with a
\* score above that of an entry.
C22_LongtermList ==
    LongtermClassified =>
        LET longterm == advice.value.list IN
        /\ Len(longterm) <= 5
        /\ \A k \in 1..Len(longterm) :
              /\ \E i \in Candidates : available[i] = longterm[k].player
              /\ longterm[k].longterm_score = LongtermScore(longterm[k].player)
              /\ longterm[k].longterm_score > 3
        /\ \A k, m \in 1..Len(longterm) :
              k # m => longterm[k].player.id # longterm[m].player.id
        /\ \A k \in 1..(Len(longterm) - 1) :
              longterm[k].longterm_score >= longterm[k + 1].longterm_score
        /\ \A i \in Candidates :
              (/\ LongtermScore(available[i]) > 3
               /\ \A k \in 1..Len(longterm) : longterm[k].player # available[i])
                  => /\ Len(longterm) = 5
                     /\ \A k \in 1..5 : longterm[k].longterm_score
                                            >= LongtermScore(available[i])

\* C22 witness: nine candidates; the first, a penalty taker with 9 expected
\* points at price 5, leads the list of five with score 6, and the second,
\* with 9 expected points at price 6 and score 4, is left out behind a 5.
C22_Witness ==
    /\ LongtermClassified
    /\ Cardinality(Candidates) = 9
    /\ Len(advice.value.list) = 5
    /\ advice.value.list[1].player = available[1]
    /\ advice.value.list[1].longterm_score = 6
    /\ advice.value.list[5].longterm_score = 5
    /\ available[2].price = 6 /\ LongtermScore(available[2]) = 4
    /\ \A k \in 1..5 : advice.value.list[k].player # available[2]

\* the chips the returned result holds a recommendation for; none when the
\* call raised
Recommended == DOMAIN advice.value.recommendations

MarkedUsed(chip) == chip \in DOMAIN chips_used /\ chips_used[chip]

\* C23: analyze_chip_usage returns a recommendation for a chip exactly when
\* the chip is not marked used in the chip state (absent counts as not used),
\* for each of the four chips independently of the other three.
C23_UnusedChipsAnalysed ==
    advice.op = "analyze_chip_usage" =>
        \A chip \in ChipNames : chip \in Recommended <=> ~MarkedUsed(chip)

\* the clubs that play in the analysed gameweek
PlayingClubs ==
    {f.home_team_id : f \in {g \in fixtures : g.gameweek = gameweek}}
        \cup {f.away_team_id : f \in {g \in fixtures : g.gameweek = gameweek}}

\* the squad positions whose athlete's club has no fixture in the gameweek
Blank == {i \in 1..Len(team) : team[i].team_id \notin PlayingClubs}

FreeHitAnalysed ==
    /\ advice.op = "analyze_chip_usage"
    /\ "free_hit" \in Recommended

\* C24: free-hit urgency is "High" exactly when strictly more than 6 squad
\* athletes belong to a club without a fixture in the analysed gameweek, and
\* "Low" otherwise; athletes are counted one by one, also those of one club.
C24_FreeHitOnBlankGameweek ==
    FreeHitAnalysed =>
        LET free_hit == advice.value.recommendations["free_hit"]
        IN /\ free_hit.players_without_fixture = Cardinality(Blank)
           /\ free_hit.urgency = IF Cardinality(Blank) > 6 THEN "High" ELSE "Low"

\* seven athletes of the one club without a fixture and one of a club that
\* plays: free hit is urgent
C24_Witness ==
    /\ FreeHitAnalysed
    /\ Len(team) = 8
    /\ Cardinality(Blank) = 7
    /\ \A i \in Blank : team[i].team_id = 3
    /\ advice.value.recommendations["free_hit"].urgency = "High"

\* the squad positions designated as bench
Bench == {i \in 1..Len(team) : "is_bench" \in DOMAIN team[i] /\ team[i].is_bench}

RECURSIVE BenchPoints(_)
BenchPoints(S) ==
    IF S = {} THEN 0
    ELSE LET i == CHOOSE j \in S : TRUE
         IN team[i].expected_points + BenchPoints(S \ {i})

\* the level the summed expected points of the bench give by themselves
BenchLevel ==
    IF BenchPoints(Bench) > 15 THEN "High"
    ELSE IF BenchPoints(Bench) > 10 THEN "Medium" ELSE "Low"

LevelRank(level) == CASE level = "High" -> 3 [] level = "Medium" -> 2 [] OTHER -> 1

\* some bench athlete's club has two or more fixtures in the gameweek
DoubleOnBench ==
    \E i \in Bench :
        Cardinality({f \in fixtures : /\ f.gameweek = gameweek
                                      /\ team[i].team_id \in {f.home_team_id,
                                                              f.away_team_id}}) > 1

BenchBoostAnalysed ==
    /\ advice.op = "analyze_chip_usage"
    /\ "bench_boost" \in Recommended

\* C25: bench-boost urgency is the level of the summed expected points of the
\* bench athletes (High above 15, Medium above 10, else Low) when no bench
\* athlete has a double gameweek, and with a double gameweek on the bench it is
\* at least that level, and strictly higher when that level is not High.
C25_DoubleGameweekRaisesBenchBoost ==
    BenchBoostAnalysed =>
        LET urgency == advice.value.recommendations["bench_boost"].urgency
        IN IF DoubleOnBench
           THEN /\ LevelRank(urgency) >= LevelRank(BenchLevel)
                /\ BenchLevel # "High" => LevelRank(urgency) > LevelRank(BenchLevel)
           ELSE urgency = BenchLevel

\* what the code does: the level of the bench's expected points, with or
\* without double gameweeks
BenchBoostFromPointsOnly ==
    BenchBoostAnalysed =>
        advice.value.recommendations["bench_boost"].urgency = BenchLevel

TripleCaptainAnalysed ==
    /\ advice.op = "analyze_chip_usage"
    /\ "triple_captain" \in Recommended

\* the club plays two or more fixtures in the analysed gameweek
DoubleGameweek(club) ==
    Cardinality({f \in fixtures : /\ f.gameweek = gameweek
                                  /\ club \in {f.home_team_id, f.away_team_id}}) > 1

\* the level of a score in hundredths
ScoreLevel(score) ==
    IF score > 800 THEN "High" ELSE IF score > 500 THEN "Medium" ELSE "Low"

\* C26: the triple-captain recommendation names a squad member no other
\* member outscores in the Scoring Engine, and its urgency is High when that
\* member's club has two or more fixtures in the gameweek, and otherwise High
\* for a score above 8, Medium above 5, else Low.
C26_TripleCaptainUrgency ==
    TripleCaptainAnalysed =>
        LET triple == advice.value.recommendations["triple_captain"]
        IN \E pref \in FirstRows :
              \E ups \in SUBSET HalfwayEntries(team, gameweek, pref) :
                 LET scores == captain_scores(team, gameweek, pref, ups)
                 IN \E i \in 1..Len(team) :
                       /\ team[i].id = triple.best_candidate
                       /\ \A j \in 1..Len(team) : scores[j].score <= scores[i].score
                       /\ triple.urgency = IF DoubleGameweek(team[i].team_id) THEN "High"
                                           ELSE ScoreLevel(scores[i].score)

\* a captain with at most 5 points whose club plays twice: urgency High
C26_Witness ==
    /\ TripleCaptainAnalysed
    /\ LET triple == advice.value.recommendations["triple_captain"]
       IN /\ triple.urgency = "High"
          /\ triple.expected_extra_points <= 50
          /\ \E i \in 1..Len(team) : /\ team[i].id = triple.best_candidate
                                     /\ DoubleGameweek(team[i].team_id)

\* C27: no ratio computed by the engines propagates a division by zero:
\* classifying long-term transfers returns a list also with a pool athlete of
\* price 0, and the wildcard analysis returns a recommendation also for a
\* squad of total price 0 or an empty squad.
C27_RatiosGuarded ==
    /\ advice.op = "identify_longterm_transfers" => advice.value.status = "ok"
    /\ (advice.op = "analyze_chip_usage" /\ AnalysedChips(chips_used) = {"wildcard"})
           => advice.value.status = "ok"

WildcardAnalysed ==
    /\ advice.op = "analyze_chip_usage"
    /\ "wildcard" \in Recommended

\* the squad positions whose athlete is flagged injured, suspended or doubtful
Unavailable ==
    {i \in 1..Len(team) : "status" \in DOMAIN team[i] /\ team[i].status \in {"i", "s", "d"}}

\* C28: the unavailable count of the wildcard analysis is the number of squad
\* athletes flagged injured, suspended or doubtful: the recommendation reports
\* unavailable athletes exactly when more than 2 are flagged, and with nobody
\* flagged, nobody on a run of difficult fixtures and budget-efficiency 1 the
\* urgency is Low.
C28_UnavailableCount ==
    WildcardAnalysed =>
        LET wildcard == advice.value.recommendations["wildcard"]
        IN /\ (\E r \in 1..Len(wildcard.reasons) : wildcard.reasons[r] = "players unavailable")
                  <=> Cardinality(Unavailable) > 2
           /\ ( /\ Unavailable = {}
                /\ count_bad_fixtures(team, gameweek) = 0
                /\ calculate_team_value_efficiency(team).value = Frac(1, 1) )
                  => wildcard.urgency = "Low"

\* the difficulty ratings the club sees in its fixtures of the look-ahead
\* window, one per fixture
RunRatings(club) ==
    LET run == {f \in fixtures : /\ f.gameweek >= gameweek
                                 /\ f.gameweek < gameweek + FixtureRunGameweeks
                                 /\ club \in {f.home_team_id, f.away_team_id}}
    IN {<<f, IF f.home_team_id = club THEN f.difficulty_home ELSE f.difficulty_away>> :
           f \in run}

RECURSIVE RatingSum(_)
RatingSum(S) ==
    IF S = {} THEN 0
    ELSE LET r == CHOOSE x \in S : TRUE IN r[2] + RatingSum(S \ {r})

\* club a's average rating in the window is strictly lower (easier) than b's
EasierRun(a, b) ==
    /\ RunRatings(a) # {} /\ RunRatings(b) # {}
    /\ RatingSum(RunRatings(a)) * Cardinality(RunRatings(b))
           < RatingSum(RunRatings(b)) * Cardinality(RunRatings(a))

HardestRating == 5

\* the fixture-run points inside the score of a value entry
RunPoints(entry) == entry.value_score - ValueSignals(entry.player)

\* C29: in the value list a club with a higher (harder) average difficulty in
\* the look-ahead window never has more fixture-run points than a club with
\* a lower average, and a club facing only hardest-rated fixtures has none.
C29_EasyRunsRewarded ==
    ValueClassified =>
        LET value == advice.value IN
        /\ \A k, m \in 1..Len(value) :
              EasierRun(value[k].player.team_id, value[m].player.team_id)
                  => RunPoints(value[k]) >= RunPoints(value[m])
        /\ \A k \in 1..Len(value) :
              ( /\ RunRatings(value[k].player.team_id) # {}
                /\ \A r \in RunRatings(value[k].player.team_id) : r[2] = HardestRating )
                  => RunPoints(value[k]) = 0

\* what the code does: 3 points for every club with a fixture in the window
EveryRunRewarded ==
    ValueClassified =>
        \A k \in 1..Len(advice.value) :
            RunPoints(advice.value[k]) =
                IF RunRatings(advice.value[k].player.team_id) = {} THEN 0 ELSE 3

Recommendations == advice.op = "get_transfer_recommendations" /\ advice.value.status = "ok"

\* the outcome of an optimizer call that succeeds with zero transfers
NoTransfersNeeded ==
    [status |-> "ok", transfers_in |-> {}, transfers_out |-> {}]

\* C30: when optimize_transfers fails inside get_transfer_recommendations,
\* the returned result differs from the one the same call returns when the
\* optimizer succeeds with zero transfers.
C30_FailureDistinguishable ==
    (Recommendations /\ result.status = "raised") =>
        advice.value # transfer_recommendations(advice.value.priority_transfers,
                                                advice.value.value_transfers,
                                                advice.value.longterm_transfers,
                                                NoTransfersNeeded)

====
